---- MODULE Spec2Model ----
(***************************************************************************)
(* Model of the OpenAi2CC gateway: the streaming translation of an         *)
(* OpenAI-style upstream stream into Claude-style events (src/index.ts,    *)
(* ApiService.handleStreamingRequest), the dispatch of the upstream call   *)
(* with or without the retry loops, and RetryManager.shouldRetry.          *)
(*                                                                         *)
(* Text is modelled as a sequence of one-character strings, so that        *)
(* concatenation (+=) is \o and JSON.parse is a parser over characters.    *)
(***************************************************************************)
EXTENDS Integers, Sequences, FiniteSets, TLC

VARIABLES
    path,             \* which handler serves the request
    stream,           \* claudeRequest.stream
    pc,               \* position of the request in its lifecycle
    attempt,          \* loop variable of the retry loop
    calls,            \* number of upstream calls issued for the request
    viaRetry,         \* TRUE when the call was issued from inside a retry loop
    sleeps,           \* the delays slept by the retry loop, in order
    lastError,        \* the error of the last failed upstream call
    errors,           \* the errors of the failed upstream calls, in order
    propagated,       \* the error thrown to the handler's catch block
    out,              \* the events written downstream (res.write), in order
    closed,           \* number of times the downstream response was ended
    httpStatus,       \* status of the JSON (non-event-stream) response, 0 if none
    toolCallBuffer,   \* index -> {id, name, arguments}
    contentBuffer,    \* accumulated text
    received,         \* the upstream data lines handled so far, in order
    clientConnected,  \* FALSE once the downstream client has disconnected
    probe             \* inputs and result of a direct call of shouldRetry

vars == <<path, stream, pc, attempt, calls, viaRetry, sleeps, lastError,
          errors, propagated, out, closed, httpStatus, toolCallBuffer,
          contentBuffer, received, clientConnected, probe>>

requestVars == <<path, stream, pc, attempt, calls, viaRetry, sleeps, lastError,
                 errors, propagated, out, closed, httpStatus, toolCallBuffer,
                 contentBuffer, received, clientConnected>>

(***************************************************************************)
(* Bounds of the model.                                                    *)
(***************************************************************************)
MaxLines == 4
MaxProbeAttempt == 4
MaxProbeRetries == 3
MaxDelayAttempt == 6
MaxNameLen == 3
MaxRules == 3
MaxMsgs == 2

MaxRequests == 2

(***************************************************************************)
(* Text helpers.                                                           *)
(***************************************************************************)
Digits == {"0", "1", "2", "3", "4", "5", "6", "7", "8", "9"}

DigitVal(c) ==
    CASE c = "0" -> 0 [] c = "1" -> 1 [] c = "2" -> 2 [] c = "3" -> 3
      [] c = "4" -> 4 [] c = "5" -> 5 [] c = "6" -> 6 [] c = "7" -> 7
      [] c = "8" -> 8 [] c = "9" -> 9

RECURSIVE NumVal(_)
NumVal(d) ==
    IF d = <<>> THEN 0
    ELSE NumVal(SubSeq(d, 1, Len(d) - 1)) * 10 + DigitVal(d[Len(d)])

\* First position at or after i whose character is in S, Len(s) + 1 if none.
FindFrom(s, i, S) ==
    LET ks == {k \in i..Len(s) : s[k] \in S}
    IN  IF ks = {} THEN Len(s) + 1
        ELSE CHOOSE k \in ks : \A m \in ks : k <= m

\* First position at or after i whose character is not a digit.
DigitsEnd(s, i) ==
    LET ks == {k \in i..Len(s) : s[k] \notin Digits}
    IN  IF ks = {} THEN Len(s) + 1
        ELSE CHOOSE k \in ks : \A m \in ks : k <= m

(***************************************************************************)
(* JSON.parse on the texts of this model: objects whose keys are strings   *)
(* without escapes and whose values are non-negative integers, written     *)
(* without white space.  Every other text is a SyntaxError (ok = FALSE);   *)
(* the fragments the model feeds never concatenate into another JSON       *)
(* value (a bare number, a string, an array).  A repeated key keeps the    *)
(* last value, as JSON.parse does.                                         *)
(***************************************************************************)
JSONFail == [ok |-> FALSE, obj |-> <<>>]

RECURSIVE ParseMembers(_, _, _)
ParseMembers(s, i, acc) ==
    IF i > Len(s) \/ s[i] # "\"" THEN JSONFail
    ELSE
      LET q == FindFrom(s, i + 1, {"\""})
          key == SubSeq(s, i + 1, q - 1)
          e == DigitsEnd(s, q + 2)
          digs == SubSeq(s, q + 2, e - 1)
      IN  IF q > Len(s) THEN JSONFail
          ELSE IF q + 1 > Len(s) \/ s[q + 1] # ":" THEN JSONFail
          ELSE IF digs = <<>> THEN JSONFail
          ELSE IF Len(digs) > 1 /\ digs[1] = "0" THEN JSONFail
          ELSE IF e > Len(s) THEN JSONFail
          ELSE
            LET acc2 == (key :> NumVal(digs)) @@ acc
            IN  IF s[e] = "}" THEN
                  IF e = Len(s) THEN [ok |-> TRUE, obj |-> acc2] ELSE JSONFail
                ELSE IF s[e] = "," THEN ParseMembers(s, e + 1, acc2)
                ELSE JSONFail

JSONParse(s) ==
    IF Len(s) < 2 \/ s[1] # "{" THEN JSONFail
    ELSE IF s = <<"{", "}">> THEN [ok |-> TRUE, obj |-> <<>>]
    ELSE ParseMembers(s, 2, <<>>)

(***************************************************************************)
(* Downstream events.  index = -1 stands for an event without an index.    *)
(* The input of a tool_use block is tagged: "object" (obj is the parsed    *)
(* object), "error" (the {error, rawArguments} payload, raw the buffered   *)
(* text) or "bash_default" ({command: 'pwd', description: ...}).           *)
(***************************************************************************)
NoInput == [tag |-> "none", obj |-> <<>>, raw |-> <<>>]

ObjectInput(o) == [tag |-> "object", obj |-> o, raw |-> <<>>]

ErrorPayload(args) == [tag |-> "error", obj |-> <<>>, raw |-> args]

BashDefault == [tag |-> "bash_default", obj |-> <<>>, raw |-> <<>>]

Ev(type, index, text, id, name, input) ==
    [type |-> type, index |-> index, text |-> text, id |-> id, name |-> name,
     input |-> input]

MessageStart == Ev("message_start", -1, <<>>, "", "", NoInput)

TextBlockStart == Ev("content_block_start", 0, <<>>, "", "", NoInput)

TextDelta(index, text) == Ev("content_block_delta", index, text, "", "", NoInput)

EmptyDelta(index) == Ev("content_block_delta", index, <<>>, "", "", NoInput)

ToolUseStart(index, id, name, input) ==
    Ev("content_block_start", index, <<>>, id, name, input)

BlockStop(index) == Ev("content_block_stop", index, <<>>, "", "", NoInput)

MessageStop == Ev("message_stop", -1, <<>>, "", "", NoInput)

DoneMarker == Ev("done_marker", -1, <<>>, "", "", NoInput)

Passthrough(line) == Ev("passthrough", -1, line.content, "", "", NoInput)

(***************************************************************************)
(* Upstream data lines.  kind: "done" is 'data: [DONE]', "json" a data     *)
(* line with choices[0], "nochoice" a data line whose JSON has no choice,  *)
(* "garbage" a data line that is not JSON, "blank" a line without the      *)
(* 'data: ' prefix.  In a tool-call fragment id = "" and name = "" stand   *)
(* for an absent (or empty, equally falsy) field.                          *)
(***************************************************************************)
Line(kind, content, tool_calls, finish) ==
    [kind |-> kind, content |-> content, tool_calls |-> tool_calls,
     finish |-> finish]

Frag(index, id, name, arguments) ==
    [index |-> index, id |-> id, name |-> name, arguments |-> arguments]

DoneLine == Line("done", <<>>, <<>>, "null")

TextLine(t) == Line("json", t, <<>>, "null")

ToolLine(f) == Line("json", <<>>, <<f>>, "null")

FinishLine(r) == Line("json", <<>>, <<>>, r)

ArgsA1 == <<"{", "\"", "a", "\"", ":">>

ArgsA2 == <<"1", "5", ",", "\"", "b", "\"">>

ArgsA3 == <<":", "2", "7", "}">>

ExpectedAB == (<<"a">> :> 15) @@ (<<"b">> :> 27)

FragA1 == Frag(0, "call_1", "add", ArgsA1)

FragA2 == Frag(0, "", "", ArgsA2)

FragA3 == Frag(0, "", "", ArgsA3)

FragNoId == Frag(1, "", "Bash", <<"{", "}">>)

Lines ==
    { DoneLine, TextLine(<<"H", "i">>), TextLine(<<"!">>), TextLine(<<>>),
      ToolLine(FragA1), ToolLine(FragA2), ToolLine(FragA3), ToolLine(FragNoId),
      FinishLine("stop"), FinishLine("tool_calls"),
      Line("garbage", <<>>, <<>>, "null") }

(***************************************************************************)
(* The data handlers.  A handler state is the triple the handler reads     *)
(* and writes: [out, toolCallBuffer, contentBuffer].                       *)
(***************************************************************************)
HState(o, b, c) == [out |-> o, toolCallBuffer |-> b, contentBuffer |-> c]

EmptySlot == [id |-> "", name |-> "", arguments |-> <<>>]

\* The arguments of a slot replaced by the latest fragment (= instead of +=).
AccumulateToolCall_Replace(buf, toolCall) ==
    LET index == toolCall.index
        slot0 == IF index \in DOMAIN buf THEN buf[index] ELSE EmptySlot
        slot1 == IF toolCall.id # "" THEN [slot0 EXCEPT !.id = toolCall.id]
                 ELSE slot0
        slot2 == IF toolCall.name # ""
                 THEN [slot1 EXCEPT !.name = toolCall.name] ELSE slot1
        slot3 == IF toolCall.arguments # <<>>
                 THEN [slot2 EXCEPT !.arguments = toolCall.arguments]
                 ELSE slot2
    IN  (index :> slot3) @@ buf

\* index.ts 376-394 and 698-713: one fragment of choice.delta.tool_calls.
AccumulateToolCall(buf, toolCall) ==
    LET index == toolCall.index
        slot0 == IF index \in DOMAIN buf THEN buf[index] ELSE EmptySlot
        slot1 == IF toolCall.id # "" THEN [slot0 EXCEPT !.id = toolCall.id]
                 ELSE slot0
        slot2 == IF toolCall.name # ""
                 THEN [slot1 EXCEPT !.name = toolCall.name] ELSE slot1
        slot3 == IF toolCall.arguments # <<>>
                 THEN [slot2 EXCEPT !.arguments = @ \o toolCall.arguments]
                 ELSE slot2
    IN  (index :> slot3) @@ buf

RECURSIVE AccumulateAll(_, _)
AccumulateAll(buf, tcs) ==
    IF tcs = <<>> THEN buf
    ELSE AccumulateAll(AccumulateToolCall(buf, Head(tcs)), Tail(tcs))

MinOf(S) == CHOOSE k \in S : \A m \in S : k <= m

\* index.ts 403-429: one entry of Object.entries(toolCallBuffer) on
\* POST /v1/messages; a SyntaxError of JSON.parse is caught and only logged.
FinalizeSlotMessages(o, index, toolCall) ==
    IF toolCall.id # "" /\ toolCall.name # "" THEN
      LET p == IF toolCall.arguments # <<>> THEN JSONParse(toolCall.arguments)
               ELSE [ok |-> TRUE, obj |-> <<>>]
      IN  IF p.ok
          THEN o \o << ToolUseStart(index + 1, toolCall.id, toolCall.name,
                                    ObjectInput(p.obj)),
                       BlockStop(index + 1) >>
          ELSE o
    ELSE o

\* index.ts 402-430: Object.entries visits integer keys in ascending order.
RECURSIVE FinalizeMessages(_, _, _)
FinalizeMessages(o, buf, todo) ==
    IF todo = {} THEN o
    ELSE LET i == MinOf(todo)
         IN  FinalizeMessages(FinalizeSlotMessages(o, i, buf[i]), buf,
                              todo \ {i})

\* A [DONE] branch that forgets to close the text block.
OnDoneMessages_NoBlockStop(o) == Append(o, MessageStop)

\* index.ts 342-353: the [DONE] branch of POST /v1/messages.
OnDoneMessages(o) == o \o << BlockStop(0), MessageStop >>

\* index.ts 339-441: one line of a chunk on POST /v1/messages.
HandleLineMessages(line, h) ==
    IF line.kind = "blank" THEN h
    ELSE IF line.kind = "done"
    THEN HState(OnDoneMessages(h.out), h.toolCallBuffer, h.contentBuffer)
    ELSE IF line.kind \in {"garbage", "nochoice"} THEN h
    ELSE
      LET hasText == line.content # <<>>
          o1 == IF hasText THEN Append(h.out, TextDelta(0, line.content))
                ELSE h.out
          c1 == IF hasText THEN h.contentBuffer \o line.content
                ELSE h.contentBuffer
          b1 == AccumulateAll(h.toolCallBuffer, line.tool_calls)
          o2 == IF line.finish = "tool_calls"
                THEN Append(FinalizeMessages(o1, b1, DOMAIN b1), MessageStop)
                ELSE o1
      IN  HState(o2, b1, c1)

\* index.ts 718-760: one entry of Object.entries(toolCallBuffer) in the
\* Claude-format branch of POST /v1/chat/completions.
FinalizeSlotChat(o, index, toolCall) ==
    LET p == JSONParse(IF toolCall.arguments # <<>> THEN toolCall.arguments
                       ELSE <<"{", "}">>)
        parsedInput == IF p.ok THEN ObjectInput(p.obj)
                       ELSE ErrorPayload(toolCall.arguments)
        input == IF toolCall.name = "Bash" /\ p.ok /\ p.obj = <<>>
                 THEN BashDefault ELSE parsedInput
    IN  o \o << ToolUseStart(index, toolCall.id, toolCall.name, input),
                EmptyDelta(index), BlockStop(index) >>

RECURSIVE FinalizeChat(_, _, _)
FinalizeChat(o, buf, todo) ==
    IF todo = {} THEN o
    ELSE LET i == MinOf(todo)
         IN  FinalizeChat(FinalizeSlotChat(o, i, buf[i]), buf, todo \ {i})

\* index.ts 683-790: one line of a chunk on POST /v1/chat/completions.
HandleLineChat(line, h, isClaudeFormat) ==
    IF line.kind = "blank" THEN h
    ELSE IF line.kind = "done"
    THEN HState(Append(h.out, DoneMarker), h.toolCallBuffer, h.contentBuffer)
    ELSE IF line.kind = "garbage" THEN h
    ELSE IF ~isClaudeFormat
    THEN HState(Append(h.out, Passthrough(line)), h.toolCallBuffer,
                h.contentBuffer)
    ELSE IF line.kind = "nochoice" THEN h
    ELSE
      LET b1 == AccumulateAll(h.toolCallBuffer, line.tool_calls)
          fin == line.finish = "tool_calls"
          o1 == IF fin
                THEN Append(FinalizeChat(h.out, b1, DOMAIN b1), MessageStop)
                ELSE h.out
          b2 == IF fin THEN <<>> ELSE b1
          o2 == IF line.content # <<>>
                THEN Append(o1, TextDelta(-1, line.content)) ELSE o1
      IN  HState(o2, b2, h.contentBuffer)

\* protocol-converter.ts 286-316: one line of a chunk in
\* ApiService.handleStreamingRequest.
HandleLineApi(line, h) ==
    IF line.kind = "blank" THEN h
    ELSE IF line.kind = "done"
    THEN HState(h.out \o << BlockStop(0), MessageStop >>, h.toolCallBuffer,
                h.contentBuffer)
    ELSE IF line.kind \in {"garbage", "nochoice"} THEN h
    ELSE IF line.content # <<>>
    THEN HState(Append(h.out, TextDelta(0, line.content)), h.toolCallBuffer,
                h.contentBuffer \o line.content)
    ELSE h

HandleLine(p, line, h) ==
    CASE p = "messages" -> HandleLineMessages(line, h)
      [] p = "chat_claude" -> HandleLineChat(line, h, TRUE)
      [] p = "chat_openai" -> HandleLineChat(line, h, FALSE)
      [] p = "api" -> HandleLineApi(line, h)

(***************************************************************************)
(* Retry policy.  An error is [status, code]: status = 0 when the error    *)
(* has no response (error.response?.status undefined), code = "" when it   *)
(* has no error.code.                                                      *)
(***************************************************************************)
Err(status, code) == [status |-> status, code |-> code]

NoError == Err(0, "")

\* index.ts 56-58
MAX_RETRIES == 3

RETRY_DELAY == 1000

RETRYABLE_STATUS_CODES == {502, 503, 504, 429}

\* retry-manager.ts 23-35
DEFAULT_RETRY_CONFIG ==
    [maxRetries |-> 3, initialDelay |-> 1000, maxDelay |-> 30000,
     backoffFactor |-> 2, jitter |-> TRUE]

DEFAULT_RETRY_CONDITION ==
    [statusCode |-> {502, 503, 504, 429},
     errorCodes |-> {"ECONNREFUSED", "ETIMEDOUT", "ECONNRESET"},
     customCondition |-> "none"]

\* A caller-supplied customCondition: "always" returns true, "never" false,
\* "early" returns attempt < 2.
CustomCondition(c, error, n) ==
    CASE c = "always" -> TRUE
      [] c = "never" -> FALSE
      [] c = "early" -> n < 2

\* The off-by-one ceiling: attempt > maxRetries instead of >=.
shouldRetry_CeilingOffByOne(error, n, config, condition) ==
    IF n > config.maxRetries THEN FALSE
    ELSE IF error.status # 0 /\ error.status \in condition.statusCode THEN TRUE
    ELSE IF error.code # "" /\ error.code \in condition.errorCodes THEN TRUE
    ELSE IF condition.customCondition # "none"
    THEN CustomCondition(condition.customCondition, error, n)
    ELSE FALSE

\* retry-manager.ts 82-107
shouldRetry(error, n, config, condition) ==
    IF n >= config.maxRetries THEN FALSE
    ELSE IF error.status # 0 /\ error.status \in condition.statusCode THEN TRUE
    ELSE IF error.code # "" /\ error.code \in condition.errorCodes THEN TRUE
    ELSE IF condition.customCondition # "none"
    THEN CustomCondition(condition.customCondition, error, n)
    ELSE FALSE

RECURSIVE Pow(_, _)
Pow(b, e) == IF e <= 0 THEN 1 ELSE b * Pow(b, e - 1)

MinNum(a, b) == IF a <= b THEN a ELSE b

\* Math.random() is drawn from the quarters k/4, k \in JitterQuarters.
JitterQuarters == {0, 2, 3}

\* The delay left unclamped.
calculateDelay_NoCap(n, config, strategy, k) ==
    LET raw == CASE strategy = "exponential" ->
                      config.initialDelay * Pow(config.backoffFactor, n - 1)
                 [] strategy = "linear" ->
                      config.initialDelay + config.initialDelay * (n - 1)
                 [] strategy = "fixed" -> config.initialDelay
                 [] OTHER ->
                      config.initialDelay * Pow(config.backoffFactor, n - 1)
    IN  IF config.jitter THEN (raw * (4 + k)) \div 8 ELSE raw

\* retry-manager.ts 53-79; k is the draw of Math.random() in quarters.
calculateDelay(n, config, strategy, k) ==
    LET raw == CASE strategy = "exponential" ->
                      config.initialDelay * Pow(config.backoffFactor, n - 1)
                 [] strategy = "linear" ->
                      config.initialDelay + config.initialDelay * (n - 1)
                 [] strategy = "fixed" -> config.initialDelay
                 [] OTHER ->
                      config.initialDelay * Pow(config.backoffFactor, n - 1)
        capped == MinNum(raw, config.maxDelay)
    IN  IF config.jitter THEN (capped * (4 + k)) \div 8 ELSE capped

\* Every error retried until the ceiling, whatever its status.
makeRequestWithRetry_Throws_RetryAll(error, n, maxRetries) ==
    n = maxRetries

\* index.ts 80-83: the catch block of makeRequestWithRetry rethrows.
makeRequestWithRetry_Throws(error, n, maxRetries) ==
    LET retryable == error.status # 0 /\ error.status \in RETRYABLE_STATUS_CODES
    IN  ~retryable \/ n = maxRetries

\* retry-manager.ts 122-124: the catch block of executeWithRetry rethrows.
executeWithRetry_Throws(error, n) ==
    ~shouldRetry(error, n, DEFAULT_RETRY_CONFIG, DEFAULT_RETRY_CONDITION)

\* Every upstream call routed through the retry loop.
DispatchViaRetry_Always(p, s) == TRUE

\* index.ts 279-294, 654-669; proxy-controller.ts 49-65 with
\* protocol-converter.ts 266-281: streaming calls post directly.
DispatchViaRetry(p, s) == ~s

\* index.ts 503-511, 832-836; proxy-controller.ts 75-79
ErrorStatus(error) == IF error.status # 0 THEN error.status ELSE 500

(***************************************************************************)
(* The lifecycle of one request.                                           *)
(***************************************************************************)
Paths == {"messages", "chat_claude", "chat_openai", "api"}

UpstreamErrors ==
    { Err(503, ""), Err(429, ""), Err(500, ""), Err(0, "ECONNRESET") }

InFlight == {"calling", "sleeping", "streaming"}

ProbeIdle ==
    [error |-> NoError, attempt |-> 0, maxRetries |-> 0, custom |-> "none",
     result |-> "unset"]

RequestInit ==
    /\ path = "none"
    /\ stream = FALSE
    /\ pc = "idle"
    /\ attempt = 0
    /\ calls = 0
    /\ viaRetry = FALSE
    /\ sleeps = <<>>
    /\ lastError = NoError
    /\ errors = <<>>
    /\ propagated = NoError
    /\ out = <<>>
    /\ closed = 0
    /\ httpStatus = 0
    /\ toolCallBuffer = <<>>
    /\ contentBuffer = <<>>
    /\ received = <<>>
    /\ clientConnected = TRUE

Init == RequestInit /\ probe = ProbeIdle

\* The handler up to its upstream dispatch.  handleStreamingRequest writes
\* message_start and the text block start before it posts
\* (protocol-converter.ts 236-261).
ReceiveRequest(p, s) ==
    /\ pc = "idle"
    /\ path' = p
    /\ stream' = s
    /\ viaRetry' = DispatchViaRetry(p, s)
    /\ attempt' = IF DispatchViaRetry(p, s) THEN 1 ELSE 0
    /\ calls' = 1
    /\ out' = IF p = "api" /\ s THEN << MessageStart, TextBlockStart >> ELSE <<>>
    /\ pc' = "calling"
    /\ UNCHANGED <<sleeps, lastError, errors, propagated, closed, httpStatus,
                   toolCallBuffer, contentBuffer, received, clientConnected,
                   probe>>

\* The handler's catch block answers with res.status(...).json(...).  Once
\* events were written the headers are sent and res.json throws: nothing is
\* written and the response is not ended.
AnswerError(error) ==
    /\ propagated' = error
    /\ IF out = <<>>
       THEN /\ pc' = "responded"
            /\ httpStatus' = ErrorStatus(error)
            /\ closed' = closed + 1
       ELSE /\ pc' = "failed"
            /\ UNCHANGED <<httpStatus, closed>>

\* The upstream call fails.
UpstreamReject(error) ==
    /\ pc = "calling"
    /\ lastError' = error
    /\ errors' = Append(errors, error)
    /\ LET throws == IF ~viaRetry THEN TRUE
                     ELSE IF path = "api" THEN executeWithRetry_Throws(error, attempt)
                     ELSE makeRequestWithRetry_Throws(error, attempt, MAX_RETRIES)
       IN  IF throws
           THEN /\ AnswerError(error)
                /\ UNCHANGED sleeps
           ELSE /\ pc' = "sleeping"
                /\ \E k \in JitterQuarters :
                     sleeps' = Append(sleeps,
                        IF path = "api"
                        THEN calculateDelay(attempt, DEFAULT_RETRY_CONFIG,
                                            "exponential", k)
                        ELSE RETRY_DELAY * attempt)
                /\ UNCHANGED <<httpStatus, closed, propagated>>
    /\ UNCHANGED <<path, stream, attempt, calls, viaRetry, out, toolCallBuffer,
                   contentBuffer, received, clientConnected, probe>>

\* index.ts 68, 72: maxRetries = MAX_RETRIES; retry-manager.ts 116 with the
\* default configuration of ApiService (protocol-converter.ts 169-171).
LoopMaxRetries(p) ==
    IF p = "api" THEN DEFAULT_RETRY_CONFIG.maxRetries ELSE MAX_RETRIES

\* The delay is over: attempt++ and the loop condition attempt <= maxRetries
\* (index.ts 72, retry-manager.ts 116); past the ceiling the loop is left and
\* lastError is thrown (index.ts 95, retry-manager.ts 136).
RetryAfterDelay ==
    /\ pc = "sleeping"
    /\ attempt' = attempt + 1
    /\ IF attempt + 1 <= LoopMaxRetries(path)
       THEN /\ calls' = calls + 1
            /\ pc' = "calling"
            /\ UNCHANGED <<propagated, httpStatus, closed>>
       ELSE /\ AnswerError(lastError)
            /\ UNCHANGED calls
    /\ UNCHANGED <<path, stream, viaRetry, sleeps, lastError, errors, out,
                   toolCallBuffer, contentBuffer, received, clientConnected,
                   probe>>

\* A non-streaming call succeeds: res.json(converted response).
UpstreamRespondJSON ==
    /\ pc = "calling"
    /\ ~stream
    /\ pc' = "responded"
    /\ httpStatus' = 200
    /\ closed' = closed + 1
    /\ UNCHANGED <<path, stream, attempt, calls, viaRetry, sleeps, lastError,
                   errors, propagated,
                   out, toolCallBuffer, contentBuffer, received,
                   clientConnected, probe>>

\* A streaming call succeeds: the handlers are registered; POST /v1/messages
\* writes message_start and the text block start here (index.ts 304-329).
UpstreamOpenStream ==
    /\ pc = "calling"
    /\ stream
    /\ pc' = "streaming"
    /\ out' = IF path = "messages" THEN out \o << MessageStart, TextBlockStart >>
              ELSE out
    /\ UNCHANGED <<path, stream, attempt, calls, viaRetry, sleeps, lastError,
                   errors, propagated,
                   closed, httpStatus, toolCallBuffer, contentBuffer, received,
                   clientConnected, probe>>

\* response.data 'data': one data line.
UpstreamData(line) ==
    /\ pc = "streaming"
    /\ Len(received) < MaxLines
    /\ LET h == HandleLine(path, line,
                           HState(out, toolCallBuffer, contentBuffer))
       IN  /\ out' = h.out
           /\ toolCallBuffer' = h.toolCallBuffer
           /\ contentBuffer' = h.contentBuffer
    /\ received' = Append(received, line)
    /\ UNCHANGED <<path, stream, pc, attempt, calls, viaRetry, sleeps,
                   lastError,
                   errors, propagated, closed, httpStatus, clientConnected, probe>>

\* An 'end' handler that fabricates the final framing.
OnEnd_SyntheticFinish(o) == o \o << BlockStop(0), MessageStop >>

\* index.ts 445-447, 793-795; protocol-converter.ts 319-322: only res.end().
OnEnd(o) == o

\* response.data 'end'.
UpstreamEnd ==
    /\ pc = "streaming"
    /\ pc' = "ended"
    /\ out' = OnEnd(out)
    /\ closed' = closed + 1
    /\ UNCHANGED <<path, stream, attempt, calls, viaRetry, sleeps, lastError,
                   errors, propagated,
                   httpStatus, toolCallBuffer, contentBuffer, received,
                   clientConnected, probe>>

\* response.data 'error'.  index.ts registers no 'error' listener: the error
\* reaches process.on('uncaughtException') (index.ts 985-988), which logs.
\* handleStreamingRequest rejects (protocol-converter.ts 324-326) and the
\* catch block of handleMessages cannot answer: the headers are sent.
UpstreamError ==
    /\ pc = "streaming"
    /\ pc' = "errored"
    /\ UNCHANGED <<path, stream, attempt, calls, viaRetry, sleeps, lastError,
                   errors, propagated,
                   out, closed, httpStatus, toolCallBuffer, contentBuffer,
                   received, clientConnected, probe>>

\* The downstream client goes away.  No handler listens for it.
ClientDisconnect ==
    /\ pc \in InFlight
    /\ clientConnected
    /\ clientConnected' = FALSE
    /\ UNCHANGED <<path, stream, pc, attempt, calls, viaRetry, sleeps,
                   lastError,
                   errors, propagated, out, closed, httpStatus, toolCallBuffer,
                   contentBuffer, received, probe>>

Next ==
    \/ \E p \in Paths, s \in BOOLEAN : ReceiveRequest(p, s)
    \/ \E e \in UpstreamErrors : UpstreamReject(e)
    \/ RetryAfterDelay
    \/ UpstreamRespondJSON
    \/ UpstreamOpenStream
    \/ \E l \in Lines : UpstreamData(l)
    \/ UpstreamEnd
    \/ UpstreamError
    \/ ClientDisconnect

Spec == Init /\ [][Next]_vars

(***************************************************************************)
(* Direct calls of shouldRetry on drawn inputs.                            *)
(***************************************************************************)
ProbeErrors ==
    { Err(503, ""), Err(429, ""), Err(502, ""), Err(504, ""), Err(500, ""),
      Err(400, ""), Err(0, "ECONNRESET"), Err(0, "ETIMEDOUT"),
      Err(0, "ECONNREFUSED"), Err(0, "EOTHER"), Err(0, "") }

ProbeCustoms == {"none", "always", "never", "early"}

ProbeInit ==
    /\ RequestInit
    /\ probe \in [error : ProbeErrors, attempt : 0..MaxProbeAttempt,
                  maxRetries : 0..MaxProbeRetries, custom : ProbeCustoms,
                  result : {"unset"}]

ProbeShouldRetry ==
    /\ probe.result = "unset"
    /\ probe' = [probe EXCEPT !.result =
           IF shouldRetry(probe.error, probe.attempt,
                          [DEFAULT_RETRY_CONFIG EXCEPT
                             !.maxRetries = probe.maxRetries],
                          [DEFAULT_RETRY_CONDITION EXCEPT
                             !.customCondition = probe.custom])
           THEN "true" ELSE "false"]
    /\ UNCHANGED requestVars

ProbeNext == ProbeShouldRetry

ProbeSpec == ProbeInit /\ [][ProbeNext]_vars

(***************************************************************************)
(* Direct calls of RetryManager.calculateDelay on managers built with the  *)
(* configurations and strategies of DelayConfigs and DelayStrategies.      *)
(***************************************************************************)
DelayStrategies == {"exponential", "linear", "fixed"}

DelayConfigs ==
    [maxRetries : {3}, initialDelay : {1000, 500}, maxDelay : {30000, 4000},
     backoffFactor : {2, 3}, jitter : BOOLEAN]

DelayInit ==
    /\ RequestInit
    /\ probe \in [attempt : 1..MaxDelayAttempt, strategy : DelayStrategies,
                  config : DelayConfigs, k : JitterQuarters, result : {-1}]

DelayCalculate ==
    /\ probe.result = -1
    /\ probe' = [probe EXCEPT !.result =
           calculateDelay(probe.attempt, probe.config, probe.strategy, probe.k)]
    /\ UNCHANGED requestVars

DelayNext == DelayCalculate

DelaySpec == DelayInit /\ [][DelayNext]_vars

(***************************************************************************)
(* Model names are texts (sequences of characters); the absent             *)
(* defaultModel (null), externalDefaultModel and customModel (undefined)   *)
(* are the empty text, which the code's truthiness tests treat alike.      *)
(***************************************************************************)
\* String.prototype.startsWith, endsWith, includes
StartsWith(s, p) == Len(p) <= Len(s) /\ SubSeq(s, 1, Len(p)) = p

EndsWith(s, p) ==
    Len(p) <= Len(s) /\ SubSeq(s, Len(s) - Len(p) + 1, Len(s)) = p

Includes(s, p) ==
    \E i \in 0..(Len(s) - Len(p)) : SubSeq(s, i + 1, i + Len(p)) = p

\* model-mapping.ts 147-163: the switch on mapping.type
KnownTypes == {"contains", "exact", "prefix", "suffix"}

IsMatch(mapping, modelName) ==
    CASE mapping.type = "contains" -> Includes(modelName, mapping.pattern)
      [] mapping.type = "exact" -> modelName = mapping.pattern
      [] mapping.type = "prefix" -> StartsWith(modelName, mapping.pattern)
      [] mapping.type = "suffix" -> EndsWith(modelName, mapping.pattern)

NoHit == [matched |-> FALSE, target |-> <<>>]

RECURSIVE MapLoop(_, _, _)

\* The loop keeps going after a match: the last matching rule decides.
MapLoop_LastMatch(mappings, i, modelName) ==
    LET hits == { j \in i..Len(mappings) :
                    /\ mappings[j].type \in KnownTypes
                    /\ IsMatch(mappings[j], modelName) }
    IN  IF hits = {} THEN NoHit
        ELSE [matched |-> TRUE,
              target |-> mappings[CHOOSE j \in hits :
                                    \A k \in hits : k <= j].target]

\* model-mapping.ts 144-169: the rule loop from rule i on.
MapLoop(mappings, i, modelName) ==
    IF i > Len(mappings) THEN NoHit
    ELSE IF mappings[i].type \notin KnownTypes
    THEN MapLoop(mappings, i + 1, modelName)
    ELSE IF IsMatch(mappings[i], modelName)
    THEN [matched |-> TRUE, target |-> mappings[i].target]
    ELSE MapLoop(mappings, i + 1, modelName)

\* The defaults consulted before the rules.
mapModel_DefaultFirst(manager, modelName, externalDefaultModel) ==
    IF Len(manager.mappings) = 0 THEN modelName
    ELSE IF manager.defaultModel # <<>> THEN manager.defaultModel
    ELSE IF externalDefaultModel # <<>> THEN externalDefaultModel
    ELSE LET hit == MapLoop(manager.mappings, 1, modelName)
         IN  IF hit.matched THEN hit.target ELSE modelName

\* model-mapping.ts 137-186: ModelMappingManager.mapModel
mapModel(manager, modelName, externalDefaultModel) ==
    IF Len(manager.mappings) = 0 THEN modelName
    ELSE LET hit == MapLoop(manager.mappings, 1, modelName)
         IN  IF hit.matched THEN hit.target
             ELSE IF manager.defaultModel # <<>> THEN manager.defaultModel
             ELSE IF externalDefaultModel # <<>> THEN externalDefaultModel
             ELSE modelName

\* model-mapping.ts 199-201
hasMappings(manager) == Len(manager.mappings) > 0

(***************************************************************************)
(* Direct calls of ModelMappingManager.mapModel.  The tables are built     *)
(* with addMapping and setDefaultModel (or loaded from a file) from the    *)
(* rules of Rules; "regex" is a type the switch does not know.             *)
(***************************************************************************)
NameChars == {"a", "b"}

Names == UNION { [1..n -> NameChars] : n \in 1..MaxNameLen }

Rule(pattern, type, target) ==
    [pattern |-> pattern, type |-> type, target |-> target]

Rules ==
    { Rule(<<"a">>, "contains", <<"x">>),
      Rule(<<"a", "b">>, "exact", <<"y">>),
      Rule(<<"b">>, "prefix", <<"z">>),
      Rule(<<"b">>, "suffix", <<"w">>),
      Rule(<<"a">>, "regex", <<"u">>),
      Rule(<<"a", "b">>, "exact", <<"a", "b">>) }

Tables == UNION { [1..n -> Rules] : n \in 0..MaxRules }

Managers == [mappings : Tables, defaultModel : {<<>>, <<"d">>}]

ExternalDefaults == {<<>>, <<"e">>}

MapInit ==
    /\ RequestInit
    /\ probe \in [manager : Managers, model : Names,
                  externalDefault : ExternalDefaults,
                  done : {FALSE}, result : {<<>>}]

MapCall ==
    /\ ~probe.done
    /\ probe' = [probe EXCEPT
           !.done = TRUE,
           !.result = mapModel(probe.manager, probe.model,
                               probe.externalDefault)]
    /\ UNCHANGED requestVars

MapNext == MapCall

MapSpec == MapInit /\ [][MapNext]_vars

(***************************************************************************)
(* Model selection of the request converters.  The converter's manager is  *)
(* null until setModelMappingManager is called.                            *)
(***************************************************************************)
\* 'qwen3-coder-plus'
QwenCoderPlus ==
    << "q", "w", "e", "n", "3", "-", "c", "o", "d", "e", "r", "-", "p", "l",
       "u", "s" >>

\* 'gpt-4'
Gpt4 ==
    << "g", "p", "t", "-", "4" >>

\* 'gpt-4-turbo'
Gpt4Turbo ==
    << "g", "p", "t", "-", "4", "-", "t", "u", "r", "b", "o" >>

\* 'gpt-3.5-turbo'
Gpt35Turbo ==
    << "g", "p", "t", "-", "3", ".", "5", "-", "t", "u", "r", "b", "o" >>

\* 'gpt-4o'
Gpt4o ==
    << "g", "p", "t", "-", "4", "o" >>

\* 'gpt-4o-mini'
Gpt4oMini ==
    << "g", "p", "t", "-", "4", "o", "-", "m", "i", "n", "i" >>

\* 'claude-3-opus-20240229'
Claude3Opus ==
    << "c", "l", "a", "u", "d", "e", "-", "3", "-", "o", "p", "u", "s", "-",
       "2", "0", "2", "4", "0", "2", "2", "9" >>

\* 'claude-3-haiku-20240307'
Claude3Haiku ==
    << "c", "l", "a", "u", "d", "e", "-", "3", "-", "h", "a", "i", "k", "u",
       "-", "2", "0", "2", "4", "0", "3", "0", "7" >>

\* 'claude-3-sonnet-20240229'
Claude3Sonnet ==
    << "c", "l", "a", "u", "d", "e", "-", "3", "-", "s", "o", "n", "n", "e",
       "t", "-", "2", "0", "2", "4", "0", "2", "2", "9" >>

\* 'claude-3-5-sonnet-20241022'
Claude35Sonnet ==
    << "c", "l", "a", "u", "d", "e", "-", "3", "-", "5", "-", "s", "o", "n",
       "n", "e", "t", "-", "2", "0", "2", "4", "1", "0", "2", "2" >>

\* The built-in table of ProtocolConverter.mapModel; <<>> is undefined.
modelMap(name) ==
    CASE name = Gpt4 -> Claude3Opus
      [] name = Gpt4Turbo -> Claude3Haiku
      [] name = Gpt35Turbo -> Claude3Sonnet
      [] name = Gpt4o -> Claude35Sonnet
      [] name = Gpt4oMini -> Claude3Haiku
      [] OTHER -> <<>>

NoManager == [present |-> FALSE, mappings |-> <<>>, defaultModel |-> <<>>]

\* The mapping table consulted before the fixed-backend mode.
claudeRequestToOpenAI_Model_MappingFirst(manager, model, useQwenCLI, customModel) ==
    IF manager.present /\ hasMappings(manager)
    THEN LET targetModel == mapModel(manager, model, customModel)
         IN  IF targetModel # model THEN targetModel
             ELSE IF customModel # <<>> THEN customModel
             ELSE targetModel
    ELSE IF useQwenCLI THEN QwenCoderPlus
    ELSE IF customModel # <<>> THEN customModel
    ELSE model

\* The model of the request claudeRequestToOpenAI returns.
claudeRequestToOpenAI_Model(manager, model, useQwenCLI, customModel) ==
    IF useQwenCLI THEN QwenCoderPlus
    ELSE IF manager.present /\ hasMappings(manager)
    THEN LET targetModel == mapModel(manager, model, customModel)
         IN  IF targetModel # model THEN targetModel
             ELSE IF customModel # <<>> THEN customModel
             ELSE targetModel
    ELSE IF customModel # <<>> THEN customModel
    ELSE model

\* ProtocolConverter.mapModel, the model of openAIRequestToClaude's result.
ProtocolConverter_mapModel(manager, openAIModel, useQwenCLI, customModel) ==
    LET targetModel == mapModel(manager, openAIModel, customModel)
    IN  IF useQwenCLI THEN QwenCoderPlus
        ELSE IF /\ manager.present
                /\ hasMappings(manager)
                /\ targetModel # openAIModel
        THEN targetModel
        ELSE IF customModel # <<>> THEN customModel
        ELSE IF modelMap(openAIModel) # <<>> THEN modelMap(openAIModel)
        ELSE Claude3Sonnet

ConvNames == Names \cup {Gpt4, Gpt35Turbo}

ConvManagers ==
    {NoManager} \cup
    [present : {TRUE}, mappings : Tables, defaultModel : {<<>>, <<"d">>}]

ConvInit ==
    /\ RequestInit
    /\ probe \in [fn : {"claudeRequestToOpenAI", "openAIRequestToClaude"},
                  manager : ConvManagers, model : ConvNames,
                  useQwenCLI : BOOLEAN, customModel : {<<>>, <<"e">>},
                  done : {FALSE}, result : {<<>>}]

ConvClaudeToOpenAI ==
    /\ ~probe.done
    /\ probe.fn = "claudeRequestToOpenAI"
    /\ probe' = [probe EXCEPT
           !.done = TRUE,
           !.result = claudeRequestToOpenAI_Model(probe.manager, probe.model,
                          probe.useQwenCLI, probe.customModel)]
    /\ UNCHANGED requestVars

ConvOpenAIToClaude ==
    /\ ~probe.done
    /\ probe.fn = "openAIRequestToClaude"
    /\ probe' = [probe EXCEPT
           !.done = TRUE,
           !.result = ProtocolConverter_mapModel(probe.manager, probe.model,
                          probe.useQwenCLI, probe.customModel)]
    /\ UNCHANGED requestVars

ConvNext == ConvClaudeToOpenAI \/ ConvOpenAIToClaude

ConvSpec == ConvInit /\ [][ConvNext]_vars

(***************************************************************************)
(* Requests of the two protocols.  One record shape serves both: a Claude  *)
(* message has kind "string" (content is the text) or "array" (content is  *)
(* blocks); an OpenAI message has kind "openai", its content in text, and  *)
(* tool_calls / tool_call_id.  An absent string field is "" and an absent  *)
(* text is <<>>: the code tests these fields for truthiness only.          *)
(***************************************************************************)
Block(type, text, id, name, input, tool_use_id, content) ==
    [type |-> type, text |-> text, id |-> id, name |-> name, input |-> input,
     tool_use_id |-> tool_use_id, content |-> content]

TextBlock(text) == Block("text", text, "", "", NoInput, "", <<>>)

ToolUseBlock(id, name, input) ==
    Block("tool_use", <<>>, id, name, input, "", <<>>)

ToolResultBlock(tool_use_id, content) ==
    Block("tool_result", <<>>, "", "", NoInput, tool_use_id, content)

ToolCall(id, name, arguments) ==
    [id |-> id, name |-> name, arguments |-> arguments]

Message(role, kind, text, blocks, tool_calls, tool_call_id) ==
    [role |-> role, kind |-> kind, text |-> text, blocks |-> blocks,
     tool_calls |-> tool_calls, tool_call_id |-> tool_call_id]

ClaudeText(role, text) == Message(role, "string", text, <<>>, <<>>, "")

ClaudeBlocks(role, blocks) == Message(role, "array", <<>>, blocks, <<>>, "")

OpenAIMessage(role, content, tool_calls, tool_call_id) ==
    Message(role, "openai", content, <<>>, tool_calls, tool_call_id)

\* An optional number or flag: the field is absent when set is FALSE.
Opt(v) == [set |-> TRUE, v |-> v]

AbsentNum == [set |-> FALSE, v |-> 0]

AbsentFlag == [set |-> FALSE, v |-> FALSE]

\* tool_choice: kind "absent", the strings 'auto', 'none', 'required' of the
\* OpenAI protocol, the object types 'auto', 'any', 'tool' of the Claude
\* protocol (kind "c_auto", "any", "tool"), or the OpenAI object of type
\* 'function'.
Choice(kind, name) == [kind |-> kind, name |-> name]

NoChoice == Choice("absent", "")

\* A tool entry: an OpenAI entry keeps name and parameters in its function
\* container (hasFunction), a Claude entry at the top level.
Tool(hasFunction, name, schema) ==
    [hasFunction |-> hasFunction, name |-> name, schema |-> schema]

Request(model, messages, max_tokens, temperature, strm, tools, tool_choice) ==
    [model |-> model, messages |-> messages, max_tokens |-> max_tokens,
     temperature |-> temperature, stream |-> strm, tools |-> tools,
     tool_choice |-> tool_choice]

(***************************************************************************)
(* JSON.stringify on the objects of this model (keys to non-negative       *)
(* integers).  The order of the members is the object's insertion order in *)
(* the code; here it is a fixed order of the keys.                         *)
(***************************************************************************)
DigitChar(d) == CHOOSE c \in Digits : DigitVal(c) = d

RECURSIVE NumText(_)
NumText(n) ==
    IF n < 10 THEN << DigitChar(n) >>
    ELSE NumText(n \div 10) \o << DigitChar(n % 10) >>

RECURSIVE StringifyMembers(_, _)
StringifyMembers(obj, keys) ==
    IF keys = {} THEN <<>>
    ELSE LET k == CHOOSE x \in keys : TRUE
             rest == keys \ {k}
         IN  << "\"" >> \o k \o << "\"", ":" >> \o NumText(obj[k])
               \o (IF rest = {} THEN <<>> ELSE << "," >>)
               \o StringifyMembers(obj, rest)

JSONStringify(obj) ==
    << "{" >> \o StringifyMembers(obj, DOMAIN obj) \o << "}" >>

\* Array.prototype.join
RECURSIVE Join(_, _)
Join(parts, sep) ==
    IF parts = <<>> THEN <<>>
    ELSE IF Len(parts) = 1 THEN parts[1]
    ELSE parts[1] \o sep \o Join(Tail(parts), sep)

(***************************************************************************)
(* ProtocolConverter.claudeRequestToOpenAI.  gen[m][i] is the id that      *)
(* generateToolCallId draws for block i of message m.  Temperatures are    *)
(* counted in tenths (0.7 is 7).                                           *)
(***************************************************************************)
\* 'system-reminder'
SystemReminder ==
    << "s", "y", "s", "t", "e", "m", "-", "r", "e", "m", "i", "n", "d", "e",
       "r" >>

\* The fixed (Chinese) sentence that replaces a long prompt holding system
\* reminders, written as one symbol.
ReplacementPrompt == << "<user asks for the current project path>" >>

\* '...[truncated]'
TruncatedMark ==
    << ".", ".", ".", "[", "t", "r", "u", "n", "c", "a", "t", "e", "d", "]" >>

\* '[Tool Result]: '
ToolResultPrefix ==
    << "[", "T", "o", "o", "l", " ", "R", "e", "s", "u", "l", "t", "]", ":",
       " " >>

\* s.length > limit ? s.substring(0, limit) + '...[truncated]' : s
Truncate(s, limit) ==
    IF Len(s) > limit THEN SubSeq(s, 1, limit) \o TruncatedMark ELSE s

\* The content of a message whose content is a string.
StringContent(originalContent) ==
    IF Includes(originalContent, SystemReminder) /\ Len(originalContent) > 10000
    THEN ReplacementPrompt
    ELSE Truncate(originalContent, 5000)

\* The input dropped: every tool call carries '{}'.
StringifyInput_Empty(input) ==
    << "{", "}" >>

\* JSON.stringify(block.input || {})
StringifyInput(input) ==
    IF input.tag = "object" THEN JSONStringify(input.obj)
    ELSE << "{", "}" >>

LoopStart == [textParts |-> <<>>, toolCalls |-> <<>>, pushed |-> <<>>]

\* One pass of the switch on block.type: acc holds textParts, toolCalls and
\* the messages the loop pushes to openAIMessages itself.
ConvertBlock(block, genId, acc) ==
    CASE block.type = "text" ->
           IF block.text # <<>>
           THEN [acc EXCEPT !.textParts = Append(@, block.text)]
           ELSE acc
      [] block.type = "tool_use" ->
           [acc EXCEPT !.toolCalls = Append(@,
               ToolCall(IF block.id # "" THEN block.id ELSE genId,
                        block.name, StringifyInput(block.input)))]
      [] block.type = "tool_result" ->
           [acc EXCEPT !.pushed = Append(@,
               OpenAIMessage("user",
                   ToolResultPrefix \o Truncate(block.content, 1000),
                   <<>>, ""))]
      [] OTHER -> acc

RECURSIVE ConvertBlocks(_, _, _, _)
ConvertBlocks(blocks, i, gen, acc) ==
    IF i > Len(blocks) THEN acc
    ELSE ConvertBlocks(blocks, i + 1, gen,
                       ConvertBlock(blocks[i], gen[i], acc))

\* The OpenAI messages that one Claude message adds to openAIMessages.
ConvertClaudeMessage(message, gen) ==
    IF message.role \notin {"user", "assistant"} THEN <<>>
    ELSE IF message.kind = "string"
    THEN LET content == StringContent(message.text)
         IN  IF content # <<>>
             THEN << OpenAIMessage(message.role, content, <<>>, "") >>
             ELSE <<>>
    ELSE IF message.kind = "array"
    THEN LET acc == ConvertBlocks(message.blocks, 1, gen, LoopStart)
             content == Join(acc.textParts, << "\n" >>)
         IN  acc.pushed \o
             (IF content # <<>> \/ acc.toolCalls # <<>>
              THEN << OpenAIMessage(message.role, content, acc.toolCalls, "") >>
              ELSE <<>>)
    ELSE <<>>

RECURSIVE ConvertClaudeMessages(_, _, _)
ConvertClaudeMessages(messages, m, gen) ==
    IF m > Len(messages) THEN <<>>
    ELSE ConvertClaudeMessage(messages[m], gen[m])
           \o ConvertClaudeMessages(messages, m + 1, gen)

\* tool.input_schema || {} and tool.function.parameters || {}
SchemaOrEmpty(schema) == IF schema # "" THEN schema ELSE "{}"

\* The entry that claudeReq.tools.map builds from one tool: tool.name and
\* tool.input_schema are read at the top level of the entry.
ClaudeToolToOpenAI(tool) ==
    IF tool.hasFunction THEN Tool(TRUE, "", "{}")
    ELSE Tool(TRUE, tool.name, SchemaOrEmpty(tool.schema))

\* 'any' left without an OpenAI counterpart.
ClaudeChoiceToOpenAI_AnyOmitted(tool_choice) ==
    CASE tool_choice.kind = "c_auto" -> Choice("auto", "")
      [] tool_choice.kind = "tool" /\ tool_choice.name # "" ->
           Choice("function", tool_choice.name)
      [] OTHER -> NoChoice

ClaudeChoiceToOpenAI(tool_choice) ==
    CASE tool_choice.kind = "c_auto" -> Choice("auto", "")
      [] tool_choice.kind = "any" -> Choice("auto", "")
      [] tool_choice.kind = "tool" /\ tool_choice.name # "" ->
           Choice("function", tool_choice.name)
      [] OTHER -> NoChoice

\* x || 4096, x || 0.7 (in tenths), x || false
OrNumber(x, default) == IF x.set /\ x.v # 0 THEN x ELSE Opt(default)

OrFalse(x) == IF x.set /\ x.v THEN x ELSE Opt(FALSE)

claudeRequestToOpenAI(claudeReq, useQwenCLI, customModel, manager, gen) ==
    Request(claudeRequestToOpenAI_Model(manager, claudeReq.model, useQwenCLI,
                                        customModel),
            ConvertClaudeMessages(claudeReq.messages, 1, gen),
            OrNumber(claudeReq.max_tokens, 4096),
            OrNumber(claudeReq.temperature, 7),
            OrFalse(claudeReq.stream),
            [i \in 1..Len(claudeReq.tools) |->
                ClaudeToolToOpenAI(claudeReq.tools[i])],
            ClaudeChoiceToOpenAI(claudeReq.tool_choice))

(***************************************************************************)
(* ProtocolConverter.openAIRequestToClaude.  JSON.parse of a tool call's   *)
(* arguments and a tool entry without its function container throw: the    *)
(* result is then the thrown error.                                        *)
(***************************************************************************)
\* 'System: '
SystemPrefix ==
    << "S", "y", "s", "t", "e", "m", ":", " " >>

EmptyRequest == Request(<<>>, <<>>, AbsentNum, AbsentNum, AbsentFlag, <<>>, NoChoice)

Returned(req) == [threw |-> FALSE, error |-> "", req |-> req]

Thrown(error) == [threw |-> TRUE, error |-> error, req |-> EmptyRequest]

\* The tool_use blocks of message.tool_calls, in order.
ToolUsesOfCalls(tool_calls) ==
    [i \in 1..Len(tool_calls) |->
        ToolUseBlock(tool_calls[i].id, tool_calls[i].name,
                     ObjectInput(JSONParse(tool_calls[i].arguments).obj))]

ArgumentsParse(tool_calls) ==
    \A i \in 1..Len(tool_calls) : JSONParse(tool_calls[i].arguments).ok

\* The Claude messages that one OpenAI message adds to claudeMessages.
ConvertOpenAIMessage(message) ==
    CASE message.role = "system" ->
           << ClaudeText("user", SystemPrefix \o message.text) >>
      [] message.role = "tool" ->
           << ClaudeBlocks("user",
                 << ToolResultBlock(message.tool_call_id, message.text) >>) >>
      [] message.role \in {"user", "assistant"} ->
           LET content ==
                 (IF message.text # <<>> THEN << TextBlock(message.text) >>
                  ELSE <<>>) \o ToolUsesOfCalls(message.tool_calls)
           IN  IF Len(content) = 1 /\ content[1].type = "text"
                  /\ content[1].text # <<>>
               THEN << ClaudeText(message.role, content[1].text) >>
               ELSE << ClaudeBlocks(message.role, content) >>
      [] OTHER -> <<>>

RECURSIVE ConvertOpenAIMessages(_, _)
ConvertOpenAIMessages(messages, m) ==
    IF m > Len(messages) THEN <<>>
    ELSE ConvertOpenAIMessage(messages[m])
           \o ConvertOpenAIMessages(messages, m + 1)

OpenAIToolToClaude(tool) == Tool(FALSE, tool.name, SchemaOrEmpty(tool.schema))

OpenAIChoiceToClaude(tool_choice) ==
    CASE tool_choice.kind = "auto" -> Choice("c_auto", "")
      [] tool_choice.kind = "function" -> Choice("tool", tool_choice.name)
      [] OTHER -> NoChoice

openAIRequestToClaude(openAIReq, useQwenCLI, customModel, manager) ==
    IF \E m \in 1..Len(openAIReq.messages) :
          /\ openAIReq.messages[m].role \in {"user", "assistant"}
          /\ ~ArgumentsParse(openAIReq.messages[m].tool_calls)
    THEN Thrown("SyntaxError")
    ELSE IF \E i \in 1..Len(openAIReq.tools) : ~openAIReq.tools[i].hasFunction
    THEN Thrown("Tool missing function property")
    ELSE Returned(
      Request(ProtocolConverter_mapModel(manager, openAIReq.model, useQwenCLI,
                                         customModel),
              ConvertOpenAIMessages(openAIReq.messages, 1),
              OrNumber(openAIReq.max_tokens, 4096),
              OrNumber(openAIReq.temperature, 7),
              OrFalse(openAIReq.stream),
              [i \in 1..Len(openAIReq.tools) |->
                  OpenAIToolToClaude(openAIReq.tools[i])],
              OpenAIChoiceToClaude(openAIReq.tool_choice)))

(***************************************************************************)
(* Direct calls of the two request converters on the requests below, and   *)
(* the round trip claudeRequestToOpenAI then openAIRequestToClaude.  The   *)
(* requests vary the messages, the numeric fields or the tools; the model  *)
(* is resolved without mapping table, --model or Qwen CLI.                 *)
(***************************************************************************)
TxtHi == << "H", "i" >>

TxtOk == << "o", "k" >>

Txt42 == << "4", "2" >>

InputA == (<< "a" >> :> 1)

InputAB == (<< "a" >> :> 15) @@ (<< "b" >> :> 27)

ClaudeMessages ==
    { ClaudeText("user", TxtHi),
      ClaudeText("user", <<>>),
      ClaudeText("system", TxtHi),
      ClaudeBlocks("user", <<>>),
      ClaudeBlocks("assistant",
          << TextBlock(TxtOk), ToolUseBlock("tu1", "calc", ObjectInput(InputAB)) >>),
      ClaudeBlocks("assistant",
          << TextBlock(<<>>), ToolUseBlock("tu2", "calc", ObjectInput(InputA)) >>),
      ClaudeBlocks("assistant", << ToolUseBlock("", "Bash", NoInput) >>),
      ClaudeBlocks("user", << ToolResultBlock("tu1", Txt42) >>),
      ClaudeBlocks("user", << TextBlock(TxtHi), ToolResultBlock("tu1", Txt42) >>) }

OpenAIMessages ==
    { OpenAIMessage("system", TxtHi, <<>>, ""),
      OpenAIMessage("user", TxtHi, <<>>, ""),
      OpenAIMessage("user", <<>>, <<>>, ""),
      OpenAIMessage("assistant", TxtOk,
          << ToolCall("call1", "calc", JSONStringify(InputAB)) >>, ""),
      OpenAIMessage("assistant", <<>>,
          << ToolCall("call2", "calc", << "{", "\"", "a", "\"", ":" >>) >>, ""),
      OpenAIMessage("tool", Txt42, <<>>, "call1") }

MessageLists(S) == UNION { [1..n -> S] : n \in 1..MaxMsgs }

NumberFields == {AbsentNum, Opt(0), Opt(5)}

FlagFields == {AbsentFlag, Opt(FALSE), Opt(TRUE)}

ToolEntries ==
    { Tool(TRUE, "calc", "S"), Tool(TRUE, "calc", ""),
      Tool(FALSE, "calc", "S"), Tool(FALSE, "", "") }

ToolLists == UNION { [1..n -> ToolEntries] : n \in 0..2 }

Choices ==
    { NoChoice, Choice("auto", ""), Choice("none", ""), Choice("required", ""),
      Choice("c_auto", ""), Choice("any", ""), Choice("tool", "calc"),
      Choice("tool", ""), Choice("function", "calc") }

\* The requests of one protocol, built on the messages of S.
RequestsOn(S, model) ==
    LET one == << CHOOSE msg \in S : msg.role = "user" /\ msg.text # <<>> >>
    IN  { Request(model, ms, AbsentNum, AbsentNum, AbsentFlag, <<>>, NoChoice) :
            ms \in MessageLists(S) }
        \cup
        { Request(model, one, mt, t, st, <<>>, NoChoice) :
            mt \in NumberFields, t \in NumberFields, st \in FlagFields }
        \cup
        { Request(model, one, AbsentNum, AbsentNum, AbsentFlag, tl, ch) :
            tl \in ToolLists, ch \in Choices }

GeneratedIds == {"call_r1", "call_r2"}

\* The draws of generateToolCallId for the blocks of a request.
IdDraws(req) ==
    [1..Len(req.messages) ->
        [1..(CHOOSE n \in 0..8 :
               /\ \A msg \in ClaudeMessages : Len(msg.blocks) <= n
               /\ \E msg \in ClaudeMessages : Len(msg.blocks) = n)
          -> GeneratedIds]]

NotCalled == [threw |-> FALSE, error |-> "not called", req |-> EmptyRequest]

TransInit ==
    /\ RequestInit
    /\ probe \in
         [fn : {"claudeRequestToOpenAI"},
          req : RequestsOn(ClaudeMessages, << "a" >>),
          stage : {"in"}, out : {NotCalled}, back : {NotCalled}]
         \cup
         [fn : {"openAIRequestToClaude"},
          req : RequestsOn(OpenAIMessages, Gpt4),
          stage : {"in"}, out : {NotCalled}, back : {NotCalled}]

TransClaudeToOpenAI ==
    /\ probe.stage = "in"
    /\ probe.fn = "claudeRequestToOpenAI"
    /\ \E gen \in IdDraws(probe.req) :
         probe' = [probe EXCEPT
            !.stage = "out",
            !.out = Returned(claudeRequestToOpenAI(probe.req, FALSE, <<>>,
                                                   NoManager, gen))]
    /\ UNCHANGED requestVars

TransOpenAIToClaude ==
    /\ probe.stage = "in"
    /\ probe.fn = "openAIRequestToClaude"
    /\ probe' = [probe EXCEPT
          !.stage = "out",
          !.out = openAIRequestToClaude(probe.req, FALSE, <<>>, NoManager)]
    /\ UNCHANGED requestVars

\* The translated request handed back to the other converter.
TransBack ==
    /\ probe.stage = "out"
    /\ probe.fn = "claudeRequestToOpenAI"
    /\ probe' = [probe EXCEPT
          !.stage = "back",
          !.back = openAIRequestToClaude(probe.out.req, FALSE, <<>>, NoManager)]
    /\ UNCHANGED requestVars

TransNext == TransClaudeToOpenAI \/ TransOpenAIToClaude \/ TransBack

TransSpec == TransInit /\ [][TransNext]_vars

(***************************************************************************)
(* The inbound endpoints up to their answer: request translation,          *)
(* credentials, the upstream call and the catch blocks.  An error is what  *)
(* the catch blocks read of it: error.message, error.response?.status (0   *)
(* without a response), error.code and error.response?.data?.error?.type.  *)
(* A message is the sequence of its parts.                                 *)
(***************************************************************************)
GateError(message, status, code, type) ==
    [message |-> message, status |-> status, code |-> code, type |-> type]

\* The error object of a response; code is absent where the handler writes
\* none.
ErrorBody(message, type, code, original_code) ==
    [message |-> message, type |-> type, code |-> code,
     original_code |-> original_code]

NoBody == ErrorBody(<<>>, "", AbsentNum, "")

\* error-handler.ts 14-31 (the upstream body carries no message of its own)
extractErrorMessage(error) ==
    CASE error.code = "ECONNREFUSED" ->
           << "Connection refused: Unable to connect to the upstream service" >>
      [] error.code = "ETIMEDOUT" ->
           << "Connection timeout: The upstream service did not respond in time" >>
      [] OTHER ->
           IF error.message # <<>> THEN error.message
           ELSE << "Unknown error occurred" >>

\* error-handler.ts 34-50
getErrorType(statusCode, error) ==
    IF error.type # "" THEN error.type
    ELSE CASE statusCode = 503 -> "service_unavailable"
           [] statusCode = 502 -> "bad_gateway"
           [] statusCode = 504 -> "gateway_timeout"
           [] statusCode = 429 -> "rate_limit_error"
           [] statusCode = 401 -> "authentication_error"
           [] statusCode = 403 -> "permission_error"
           [] statusCode = 404 -> "not_found"
           [] statusCode = 400 -> "invalid_request_error"
           [] OTHER -> "api_error"

\* error-handler.ts 67-86
enhanceErrorMessage(message, type) ==
    CASE type = "service_unavailable" ->
           << "Service unavailable: " >> \o message \o
           << ". The upstream service may be temporarily down or overloaded. Please try again later." >>
      [] type = "bad_gateway" ->
           << "Bad gateway: " >> \o message \o
           << ". The upstream service returned an invalid response." >>
      [] type = "gateway_timeout" ->
           << "Gateway timeout: " >> \o message \o
           << ". The upstream service took too long to respond." >>
      [] type = "rate_limit_error" ->
           << "Rate limit exceeded: " >> \o message \o
           << ". Please slow down your requests." >>
      [] type = "authentication_error" ->
           << "Authentication failed: " >> \o message \o
           << ". Please check your API key." >>
      [] type = "permission_error" ->
           << "Access denied: " >> \o message \o
           << ". You may not have permission to access this resource." >>
      [] type = "not_found" ->
           << "Resource not found: " >> \o message \o
           << ". The requested endpoint or model may not exist." >>
      [] OTHER -> message

\* error-handler.ts 53-64
createErrorResponse(error, statusCode) ==
    LET message == extractErrorMessage(error)
        type == getErrorType(statusCode, error)
    IN  ErrorBody(enhanceErrorMessage(message, type), type, Opt(statusCode),
                  error.code)

\* ProtocolConverter.formatErrorResponse
formatErrorResponse(error, statusCode) ==
    createErrorResponse(error, statusCode)

\* error.response?.status || 500
StatusCodeOf(error) == IF error.status # 0 THEN error.status ELSE 500

\* The catch block of '/v1/messages' in index.ts.
MessagesCatch(error) ==
    ErrorBody(IF error.message # <<>> THEN error.message
              ELSE << "Internal server error" >>,
              "api_error", AbsentNum, "")

QwenAuthFailed ==
    << "Qwen CLI authentication failed. Please check your OAuth credentials." >>

ApiKeyMissing == << "OpenAI API key not configured" >>

\* The 401 answers of index.ts.
Unauthorized(message) ==
    ErrorBody(message, "authentication_error", Opt(401), "")

\* The 500 answer of index.ts without a resource URL.
NotConfigured ==
    ErrorBody(<< "Resource URL not configured for Qwen CLI mode" >>,
              "configuration_error", Opt(500), "")

\* What a handler did with a request: the status and error body of its
\* answer, whether the upstream chat call was made and the tools it carried.
Answer(status, body, sent, forwarded) ==
    [status |-> status, body |-> body, sent |-> sent, forwarded |-> forwarded]

NoAnswer == Answer(0, NoBody, FALSE, <<>>)

\* The error object that the catch block of a handler writes.
CatchBody(handler, error, statusCode) ==
    CASE handler = "index /v1/messages" -> MessagesCatch(error)
      [] handler = "controller /v1/messages" ->
           createErrorResponse(error, statusCode)
      [] OTHER -> formatErrorResponse(error, statusCode)

\* The answer after the upstream call: 200, or the catch block's answer.
AfterUpstream(upstream, forwarded, handler) ==
    IF upstream.status = 200
    THEN Answer(200, NoBody, TRUE, forwarded)
    ELSE Answer(StatusCodeOf(upstream),
                CatchBody(handler, upstream, StatusCodeOf(upstream)),
                TRUE, forwarded)

\* The request body { model, messages: [{role:'user', content:'Hi'}], tools }
\* read as a Claude request and as an OpenAI request.
BodyAsClaude(tools) ==
    Request(Gpt4, << ClaudeText("user", TxtHi) >>, AbsentNum, AbsentNum,
            AbsentFlag, tools, NoChoice)

BodyAsOpenAI(tools) ==
    Request(Gpt4, << OpenAIMessage("user", TxtHi, <<>>, "") >>, AbsentNum,
            AbsentNum, AbsentFlag, tools, NoChoice)

\* The tools of claudeRequestToOpenAI's result ('tools' is left out when
\* the request has none).
ToolsToOpenAI(p) ==
    claudeRequestToOpenAI(BodyAsClaude(p.tools), p.useQwenCLI, <<>>, NoManager,
                          CHOOSE gen \in IdDraws(BodyAsClaude(p.tools)) : TRUE
                         ).tools

\* index.ts, app.post('/v1/messages')
IndexMessages(p) ==
    LET openAIRequestTools == ToolsToOpenAI(p)
    IN  IF p.useQwenCLI /\ ~p.accessToken
        THEN Answer(401, Unauthorized(QwenAuthFailed), FALSE, <<>>)
        ELSE IF ~p.useQwenCLI /\ ~p.apiKey
        THEN Answer(401, Unauthorized(ApiKeyMissing), FALSE, <<>>)
        ELSE IF p.useQwenCLI /\ ~p.resourceUrl
        THEN Answer(500, NotConfigured, FALSE, <<>>)
        ELSE AfterUpstream(p.upstream, openAIRequestTools, "index /v1/messages")

\* req.headers['anthropic-version'] ||
\* (req.body.tools && req.body.tools[0] && !req.body.tools[0].function)
isClaudeFormat(p) ==
    p.anthropicVersion \/ (p.tools # <<>> /\ ~p.tools[1].hasFunction)

ThrownError(thrown) == GateError(<< thrown.error >>, 0, "", "")

\* index.ts, app.post('/v1/chat/completions')
IndexChatCompletions(p) ==
    LET claudeRequest ==
            IF isClaudeFormat(p) THEN Returned(BodyAsClaude(p.tools))
            ELSE openAIRequestToClaude(BodyAsOpenAI(p.tools), p.useQwenCLI,
                                       <<>>, NoManager)
        requestDataTools ==
            IF isClaudeFormat(p) THEN ToolsToOpenAI(p)
            ELSE claudeRequest.req.tools
    IN  IF claudeRequest.threw
        THEN Answer(500, formatErrorResponse(ThrownError(claudeRequest), 500),
                    FALSE, <<>>)
        ELSE IF p.useQwenCLI /\ ~p.accessToken
        THEN Answer(401, Unauthorized(QwenAuthFailed), FALSE, <<>>)
        ELSE IF ~p.useQwenCLI /\ ~p.apiKey
        THEN Answer(401, Unauthorized(ApiKeyMissing), FALSE, <<>>)
        ELSE IF p.useQwenCLI /\ ~p.resourceUrl
        THEN Answer(500, NotConfigured, FALSE, <<>>)
        ELSE AfterUpstream(p.upstream, requestDataTools,
                           "index /v1/chat/completions")

\* ApiService.getAuthHeaders: the error it throws, or none.
getAuthHeaders(useQwenCLI, accessToken, apiKey) ==
    IF useQwenCLI
    THEN IF ~accessToken THEN GateError(QwenAuthFailed, 0, "", "")
         ELSE GateError(<<>>, 0, "", "")
    ELSE IF ~apiKey THEN GateError(ApiKeyMissing, 0, "", "")
         ELSE GateError(<<>>, 0, "", "")

ResourceUrlMissing == GateError(<< "Resource URL not configured" >>, 0, "", "")

\* The steps that ProxyController.handleMessages and handleChatCompletions
\* share after the translation.  ApiService.makeRequestWithRetry asks for
\* the Qwen token again inside the retried operation; an error thrown there
\* has neither status nor code and is not retried.
ControllerSend(p, forwarded, handler) ==
    LET auth == getAuthHeaders(p.useQwenCLI, p.accessToken, p.apiKey)
        again == getAuthHeaders(p.useQwenCLI, p.tokenAtSend, p.apiKey)
    IN  IF auth.message # <<>>
        THEN Answer(500, CatchBody(handler, auth, 500), FALSE, <<>>)
        ELSE IF p.useQwenCLI /\ ~p.resourceUrl
        THEN Answer(500, CatchBody(handler, ResourceUrlMissing, 500),
                    FALSE, <<>>)
        ELSE IF p.useQwenCLI /\ again.message # <<>>
        THEN Answer(500, CatchBody(handler, again, 500), FALSE, <<>>)
        ELSE AfterUpstream(p.upstream, forwarded, handler)

\* proxy-controller.ts, handleMessages
ControllerMessages(p) ==
    ControllerSend(p, ToolsToOpenAI(p), "controller /v1/messages")

\* proxy-controller.ts, handleChatCompletions: requestData has no tools.
ControllerChatCompletions(p) ==
    LET claudeRequest ==
            openAIRequestToClaude(BodyAsOpenAI(p.tools), p.useQwenCLI, <<>>,
                                  NoManager)
    IN  IF claudeRequest.threw
        THEN Answer(500, formatErrorResponse(ThrownError(claudeRequest), 500),
                    FALSE, <<>>)
        ELSE ControllerSend(p, <<>>, "controller /v1/chat/completions")

\* What the upstream call ends with, after the retries where there are any.
Upstreams ==
    { GateError(<<>>, 200, "", ""),
      GateError(<< "Request failed with status code 400" >>, 400, "",
                "invalid_request_error"),
      GateError(<< "Request failed with status code 429" >>, 429, "", ""),
      GateError(<< "Request failed with status code 503" >>, 503, "", ""),
      GateError(<< "socket hang up" >>, 0, "ECONNRESET", ""),
      GateError(<< "connect ECONNREFUSED" >>, 0, "ECONNREFUSED", "") }

GateInit ==
    /\ RequestInit
    /\ probe \in
         [handler : {"none"}, anthropicVersion : BOOLEAN, tools : ToolLists,
          useQwenCLI : BOOLEAN, accessToken : BOOLEAN, tokenAtSend : BOOLEAN,
          apiKey : BOOLEAN, resourceUrl : BOOLEAN, upstream : Upstreams,
          answer : {NoAnswer}]

GateIndexMessages ==
    /\ probe.handler = "none"
    /\ probe' = [probe EXCEPT !.handler = "index /v1/messages",
                              !.answer = IndexMessages(probe)]
    /\ UNCHANGED requestVars

GateIndexChatCompletions ==
    /\ probe.handler = "none"
    /\ probe' = [probe EXCEPT !.handler = "index /v1/chat/completions",
                              !.answer = IndexChatCompletions(probe)]
    /\ UNCHANGED requestVars

GateControllerMessages ==
    /\ probe.handler = "none"
    /\ probe' = [probe EXCEPT !.handler = "controller /v1/messages",
                              !.answer = ControllerMessages(probe)]
    /\ UNCHANGED requestVars

GateControllerChatCompletions ==
    /\ probe.handler = "none"
    /\ probe' = [probe EXCEPT !.handler = "controller /v1/chat/completions",
                              !.answer = ControllerChatCompletions(probe)]
    /\ UNCHANGED requestVars

GateNext ==
    \/ GateIndexMessages
    \/ GateIndexChatCompletions
    \/ GateControllerMessages
    \/ GateControllerChatCompletions

GateSpec == GateInit /\ [][GateNext]_vars

(***************************************************************************)
(* ModelMappingManager.loadFromFile and loadFromEnv.  A configuration is   *)
(* the content of the file or of the environment variable: missing, not    *)
(* JSON, an object whose 'mappings' is not an array, or an object with     *)
(* its entries and defaultModel; a missing pattern or target is <<>>, a    *)
(* missing type "" and a missing defaultModel <<>>.                        *)
(***************************************************************************)
Config(kind, mappings, defaultModel) ==
    [kind |-> kind, mappings |-> mappings, defaultModel |-> defaultModel]

NoConfig == Config("none", <<>>, <<>>)

Manager(mappings, defaultModel) ==
    [mappings |-> mappings, defaultModel |-> defaultModel]

\* !mapping.pattern || !mapping.target
EntryInvalid(mapping) == mapping.pattern = <<>> \/ mapping.target = <<>>

\* mapping.type || 'contains'
EntryToRule(mapping) ==
    Rule(mapping.pattern,
         IF mapping.type # "" THEN mapping.type ELSE "contains",
         mapping.target)

\* The statements of the try block throw.
ParseThrows(config) ==
    \/ config.kind \in {"invalid_json", "no_array"}
    \/ \E i \in 1..Len(config.mappings) : EntryInvalid(config.mappings[i])

\* The catch block without strict mode: this.mappings = []
LoadFails(manager) == Manager(<<>>, manager.defaultModel)

\* The try block to its end: the rules replaced, defaultModel assigned when
\* the configuration has one.
LoadSucceeds(manager, config) ==
    Manager([i \in 1..Len(config.mappings) |-> EntryToRule(config.mappings[i])],
            IF config.defaultModel # <<>> THEN config.defaultModel
            ELSE manager.defaultModel)

Loaded(manager, outcome) == [manager |-> manager, outcome |-> outcome]

\* model-mapping.ts 27-85
loadFromFile(manager, config, strict) ==
    IF config.kind = "missing"
    THEN Loaded(manager, IF strict THEN "thrown" ELSE "skipped")
    ELSE IF ParseThrows(config)
    THEN IF strict THEN Loaded(manager, "thrown")
         ELSE Loaded(LoadFails(manager), "failed")
    ELSE Loaded(LoadSucceeds(manager, config), "loaded")

\* model-mapping.ts 91-129
loadFromEnv(manager, config) ==
    IF config.kind = "missing" THEN Loaded(manager, "skipped")
    ELSE IF ParseThrows(config) THEN Loaded(LoadFails(manager), "failed")
    ELSE Loaded(LoadSucceeds(manager, config), "loaded")

ConfigEntries ==
    { Rule(<<"a">>, "exact", <<"x">>),
      Rule(<<"b">>, "", <<"y">>),
      Rule(<<"a">>, "prefix", <<>>),
      Rule(<<>>, "contains", <<"z">>) }

Configs ==
    { Config("missing", <<>>, <<>>), Config("invalid_json", <<>>, <<>>) }
    \cup { Config("no_array", <<>>, d) : d \in {<<>>, <<"d">>} }
    \cup { Config("object", ms, d) :
             ms \in UNION { [1..n -> ConfigEntries] : n \in 0..2 },
             d \in {<<>>, <<"d">>} }

LoadInit ==
    /\ RequestInit
    /\ probe = [manager |-> Manager(<<>>, <<>>), prev |-> Manager(<<>>, <<>>),
                config |-> NoConfig, fn |-> "constructor", strict |-> FALSE,
                outcome |-> "none"]

LoadFromFile ==
    /\ \E config \in Configs, strict \in BOOLEAN :
         LET r == loadFromFile(probe.manager, config, strict)
         IN  probe' = [manager |-> r.manager, prev |-> probe.manager,
                       config |-> config, fn |-> "loadFromFile",
                       strict |-> strict, outcome |-> r.outcome]
    /\ UNCHANGED requestVars

LoadFromEnv ==
    /\ \E config \in Configs :
         LET r == loadFromEnv(probe.manager, config)
         IN  probe' = [manager |-> r.manager, prev |-> probe.manager,
                       config |-> config, fn |-> "loadFromEnv",
                       strict |-> FALSE, outcome |-> r.outcome]
    /\ UNCHANGED requestVars

LoadNext == LoadFromFile \/ LoadFromEnv

LoadSpec == LoadInit /\ [][LoadNext]_vars

(***************************************************************************)
(* QwenCLIManager: the OAuth credentials, the refresh timer, the           *)
(* one-minute retry timers and the refreshes in flight.  Time is the       *)
(* position of Date.now() against expiry_date: "fresh" (more than five     *)
(* minutes left), "near" (five minutes or less) and "expired".  A          *)
(* resource_url is what getResourceUrl reads of it: whether it is there,   *)
(* has a protocol and ends with /v1.                                       *)
(***************************************************************************)
Url(present, protocol, v1) ==
    [present |-> present, protocol |-> protocol, v1 |-> v1]

NoUrl == Url(FALSE, FALSE, FALSE)

OAuthCreds(present, access_token, refresh_token, expiry, token_type,
           resource_url) ==
    [present |-> present, access_token |-> access_token,
     refresh_token |-> refresh_token, expiry |-> expiry,
     token_type |-> token_type, resource_url |-> resource_url]

\* this.oauthCreds = null
NoCreds == OAuthCreds(FALSE, "", FALSE, "expired", FALSE, NoUrl)

\* qwen-cli-manager.ts 141-159
getResourceUrl(oauthCreds) ==
    IF ~oauthCreds.present \/ ~oauthCreds.resource_url.present THEN NoUrl
    ELSE Url(TRUE, TRUE, TRUE)

\* The credentials that a successful refreshToken assigns.
RefreshedCreds(oauthCreds, expiry) ==
    OAuthCreds(TRUE, "refreshed", oauthCreds.refresh_token, expiry, TRUE,
               NoUrl)

\* A refreshToken call passes its guard and posts to the token endpoint.
Posted(s, origin) ==
    [s EXCEPT !.inFlight[origin] = @ + 1]

\* What the caller of refreshToken does when it rejects: the timer callback
\* and the immediate refresh set a one-minute timer, getAccessToken
\* returns null.
Rejected(s, origin) ==
    IF origin = "request" THEN s
    ELSE [s EXCEPT !.retryTimers = @ + 1]

\* qwen-cli-manager.ts 51-54: the call of refreshToken by 'origin'
CallRefreshToken(s, origin) ==
    IF ~s.oauthCreds.present \/ ~s.oauthCreds.refresh_token
    THEN Rejected([s EXCEPT !.last = "failed", !.before = s.oauthCreds],
                  origin)
    ELSE Posted(s, origin)

\* qwen-cli-manager.ts 90-117
startTokenRefreshTimer(s) ==
    IF ~s.oauthCreds.present THEN s
    ELSE IF s.oauthCreds.expiry = "fresh"
    THEN [s EXCEPT !.refreshTimer = "armed",
                   !.untracked = IF s.refreshTimer \in {"armed", "due"}
                                 THEN @ + 1 ELSE @]
    ELSE CallRefreshToken(s, "immediate")

Origins == {"timer", "immediate", "request"}

\* The content of the credentials file that initialize reads.
CredFiles ==
    { NoCreds }
    \cup { OAuthCreds(TRUE, "loaded", r, e, TRUE, u) :
             r \in BOOLEAN, e \in {"fresh", "near", "expired"},
             u \in {NoUrl, Url(TRUE, FALSE, FALSE), Url(TRUE, TRUE, TRUE)} }

TokenInit ==
    /\ RequestInit
    /\ probe = [phase |-> "constructed", oauthCreds |-> NoCreds,
                refreshTimer |-> "null", untracked |-> 0, retryTimers |-> 0,
                inFlight |-> [o \in Origins |-> 0],
                last |-> "none", before |-> NoCreds]

\* qwen-cli-manager.ts 24-27
TokenInitialize ==
    /\ probe.phase = "constructed"
    /\ \E file \in CredFiles :
         probe' = startTokenRefreshTimer(
                     [probe EXCEPT !.phase = "running", !.oauthCreds = file])
    /\ UNCHANGED requestVars

\* Time passes: the token gets nearer to its expiry and an armed timer
\* reaches its delay.
TokenTick ==
    /\ probe.phase = "running"
    /\ \/ probe.oauthCreds.present /\ probe.oauthCreds.expiry # "expired"
       \/ probe.refreshTimer = "armed"
    /\ probe' = [probe EXCEPT
          !.oauthCreds.expiry =
              IF ~probe.oauthCreds.present THEN @
              ELSE IF @ = "fresh" THEN "near" ELSE "expired",
          !.refreshTimer = IF @ = "armed" THEN "due" ELSE @]
    /\ UNCHANGED requestVars

\* The callback of this.refreshTimer starts: await this.refreshToken()
TokenTimerFire ==
    /\ probe.phase = "running"
    /\ probe.refreshTimer = "due"
    /\ probe' = CallRefreshToken([probe EXCEPT !.refreshTimer = "fired"],
                                 "timer")
    /\ UNCHANGED requestVars

\* A one-minute timer fires: this.startTokenRefreshTimer()
TokenRetryFire ==
    /\ probe.phase = "running"
    /\ probe.retryTimers > 0
    /\ probe' = startTokenRefreshTimer([probe EXCEPT !.retryTimers = @ - 1])
    /\ UNCHANGED requestVars

\* qwen-cli-manager.ts 119-135: a request asks for the token; with an
\* expired token it calls refreshToken.
TokenGetAccessToken ==
    /\ probe.phase = "running"
    /\ probe.oauthCreds.present
    /\ probe.oauthCreds.expiry = "expired"
    /\ probe.inFlight["request"] < MaxRequests
    /\ probe' = CallRefreshToken(probe, "request")
    /\ UNCHANGED requestVars

\* qwen-cli-manager.ts 74-83: the token endpoint answered.
TokenRefreshSucceeds ==
    /\ probe.phase = "running"
    /\ \E origin \in Origins, expiry \in {"fresh", "near"} :
         /\ probe.inFlight[origin] > 0
         /\ LET done == [probe EXCEPT
                  !.inFlight[origin] = @ - 1,
                  !.last = "ok",
                  !.before = probe.oauthCreds,
                  !.oauthCreds = RefreshedCreds(probe.oauthCreds, expiry)]
            IN  probe' = IF origin = "timer" THEN startTokenRefreshTimer(done)
                         ELSE done
    /\ UNCHANGED requestVars

\* qwen-cli-manager.ts 84-87: the post failed.
TokenRefreshFails ==
    /\ probe.phase = "running"
    /\ \E origin \in Origins :
         /\ probe.inFlight[origin] > 0
         /\ probe' = Rejected([probe EXCEPT !.inFlight[origin] = @ - 1,
                                            !.last = "failed",
                                            !.before = probe.oauthCreds],
                              origin)
    /\ UNCHANGED requestVars

\* qwen-cli-manager.ts 161-166, called by the SIGINT and SIGTERM handlers
TokenCleanup ==
    /\ probe.phase = "running"
    /\ probe' = [probe EXCEPT !.phase = "cleaned", !.refreshTimer = "null"]
    /\ UNCHANGED requestVars

\* index.ts 973, 981: process.exit(0) after cleanup()
TokenExit ==
    /\ probe.phase = "cleaned"
    /\ probe' = [probe EXCEPT !.phase = "exited"]
    /\ UNCHANGED requestVars

TokenNext ==
    \/ TokenInitialize
    \/ TokenTick
    \/ TokenTimerFire
    \/ TokenRetryFire
    \/ TokenGetAccessToken
    \/ TokenRefreshSucceeds
    \/ TokenRefreshFails
    \/ TokenCleanup
    \/ TokenExit

TokenSpec == TokenInit /\ [][TokenNext]_vars

(***************************************************************************)
(* Transport chunks.  Every data handler runs chunk.toString().split('\n')  *)
(* on each chunk by itself and keeps no remainder for the next chunk.  The *)
(* probe here is [p, lines, cuts, h]: the data lines the upstream has sent, *)
(* for each the number of characters after which the transport cut it      *)
(* (0: the line came in one chunk), and the handler state.  The lines of   *)
(* Lines all have a payload longer than two characters, and no proper      *)
(* prefix of a payload is JSON: it is an unclosed object, an unclosed      *)
(* '[DONE' or the head of the non-JSON payload.                            *)
(***************************************************************************)
MaxChunkLines == 2

Cuts == {0, 3, 6, 8}

BlankLine == Line("blank", <<>>, <<>>, "null")

GarbageLine == Line("garbage", <<>>, <<>>, "null")

\* index.ts 340-341, 684-685; protocol-converter.ts 287-288: the head of a
\* line cut after `cut` characters.  Within 'data: ' it has no prefix; from
\* six on line.slice(6) is a proper prefix of the payload, which is not
\* '[DONE]' and on which JSON.parse throws.
FirstPiece(line, cut) == IF cut < 6 THEN BlankLine ELSE GarbageLine

\* The tail of a cut line opens the next chunk: line.startsWith('data: ')
\* is false.
SecondPiece(line, cut) == BlankLine

\* The lines the handlers see for one upstream line.
ChunkPieces(line, cut) ==
    IF cut = 0 THEN << line >>
    ELSE << FirstPiece(line, cut), SecondPiece(line, cut) >>

\* index.ts 338-339, 682-683; protocol-converter.ts 285-286:
\* for (const line of lines).
RECURSIVE HandleLines(_, _, _)
HandleLines(p, lines, h) ==
    IF lines = <<>> THEN h
    ELSE HandleLines(p, Tail(lines), HandleLine(p, Head(lines), h))

\* The handler state when the stream opens (index.ts 304-331, 672-680;
\* protocol-converter.ts 236-261).
OpenedStream(p) ==
    HState(IF p \in {"messages", "api"} THEN << MessageStart, TextBlockStart >>
           ELSE <<>>,
           <<>>, <<>>)

ChunkInit ==
    /\ RequestInit
    /\ \E p \in Paths :
         probe = [p |-> p, lines |-> <<>>, cuts |-> <<>>, h |-> OpenedStream(p)]

\* 'data' with a chunk that holds one whole line.
ChunkWholeLine(line) ==
    /\ Len(probe.lines) < MaxChunkLines
    /\ probe' = [probe EXCEPT
          !.lines = Append(@, line),
          !.cuts = Append(@, 0),
          !.h = HandleLines(probe.p, ChunkPieces(line, 0), @)]
    /\ UNCHANGED requestVars

\* 'data' twice: the line arrives in two chunks, cut after `cut` characters.
ChunkSplitLine(line, cut) ==
    /\ Len(probe.lines) < MaxChunkLines
    /\ cut # 0
    /\ probe' = [probe EXCEPT
          !.lines = Append(@, line),
          !.cuts = Append(@, cut),
          !.h = HandleLines(probe.p, << SecondPiece(line, cut) >>,
                            HandleLines(probe.p, << FirstPiece(line, cut) >>,
                                        @))]
    /\ UNCHANGED requestVars

ChunkNext ==
    \/ \E line \in Lines : ChunkWholeLine(line)
    \/ \E line \in Lines, cut \in Cuts : ChunkSplitLine(line, cut)

ChunkSpec == ChunkInit /\ [][ChunkNext]_vars

(***************************************************************************)
(* The opening of a Claude-style stream.  The probe here is the request    *)
(* and the deployment ([manager, model, useQwenCLI, customModel]), the     *)
(* handler that served it, the model of the request sent upstream          *)
(* (openAIModel), the model written into message_start (startModel) and    *)
(* the events written.                                                     *)
(***************************************************************************)
StartInit ==
    /\ RequestInit
    /\ probe \in [handler : {"none"},
                  manager : ConvManagers, model : ConvNames,
                  useQwenCLI : BOOLEAN, customModel : {<<>>, <<"e">>},
                  openAIModel : {<<>>}, startModel : {<<>>}, out : {<<>>}]

\* index.ts 163 and 304-329; proxy-controller.ts 30-34 with
\* protocol-converter.ts 236-261: the request is translated, message_start
\* is written with model: claudeRequest.model, then content_block_start 0.
OpenStream(s, handler) ==
    [s EXCEPT
       !.handler = handler,
       !.openAIModel = claudeRequestToOpenAI_Model(s.manager, s.model,
                           s.useQwenCLI, s.customModel),
       !.startModel = s.model,
       !.out = << MessageStart, TextBlockStart >>]

\* POST /v1/messages of index.ts with stream: true, the upstream call made.
StartIndexMessages ==
    /\ probe.handler = "none"
    /\ probe' = OpenStream(probe, "index /v1/messages")
    /\ UNCHANGED requestVars

\* ProxyController.handleMessages with stream: true.
StartControllerMessages ==
    /\ probe.handler = "none"
    /\ probe' = OpenStream(probe, "controller /v1/messages")
    /\ UNCHANGED requestVars

\* The first text delta of the upstream (index.ts 362-372;
\* protocol-converter.ts 303-311).
StartFirstDelta ==
    /\ probe.handler # "none"
    /\ Len(probe.out) = 2
    /\ \E line \in {TextLine(<<"H", "i">>), TextLine(<<"!">>)} :
         probe' = [probe EXCEPT
            !.out = HandleLine(IF probe.handler = "index /v1/messages"
                               THEN "messages" ELSE "api",
                               line, HState(probe.out, <<>>, <<>>)).out]
    /\ UNCHANGED requestVars

StartNext ==
    \/ StartIndexMessages
    \/ StartControllerMessages
    \/ StartFirstDelta

StartSpec == StartInit /\ [][StartNext]_vars

(***************************************************************************)
(* Vocabulary of the properties.                                           *)
(***************************************************************************)
IsToolUse(e) == e.type = "content_block_start" /\ e.input.tag # "none"

CountType(o, t) == Cardinality({i \in DOMAIN o : o[i].type = t})

ToolUses(o) == SelectSeq(o, IsToolUse)

IsTextDeltaLine(l) ==
    l.kind = "json" /\ l.content # <<>> /\ l.tool_calls = <<>> /\ l.finish = "null"

\* N text-delta lines, then at most one finish_reason 'stop' line, then [DONE].
DeltasThenDone(rcv, n) ==
    /\ n + 1 <= Len(rcv)
    /\ Len(rcv) <= n + 2
    /\ \A i \in 1..n : IsTextDeltaLine(rcv[i])
    /\ Len(rcv) = n + 2 => rcv[n + 1] = FinishLine("stop")
    /\ rcv[Len(rcv)] = DoneLine

RECURSIVE ConcatContents(_)
ConcatContents(ls) ==
    IF ls = <<>> THEN <<>> ELSE Head(ls).content \o ConcatContents(Tail(ls))

RECURSIVE ConcatTexts(_)
ConcatTexts(es) ==
    IF es = <<>> THEN <<>> ELSE Head(es).text \o ConcatTexts(Tail(es))

IsDelta(e) == e.type = "content_block_delta"

\* The fragments of tool call i in the lines rcv, in arrival order.
RECURSIVE FragsOfCalls(_, _)
FragsOfCalls(tcs, i) ==
    IF tcs = <<>> THEN <<>>
    ELSE (IF Head(tcs).index = i THEN <<Head(tcs)>> ELSE <<>>)
         \o FragsOfCalls(Tail(tcs), i)

RECURSIVE FragsOf(_, _)
FragsOf(rcv, i) ==
    IF rcv = <<>> THEN <<>>
    ELSE FragsOfCalls(Head(rcv).tool_calls, i) \o FragsOf(Tail(rcv), i)

RECURSIVE ArgsSent(_)
ArgsSent(fs) ==
    IF fs = <<>> THEN <<>> ELSE Head(fs).arguments \o ArgsSent(Tail(fs))

RECURSIVE IdSent(_)
IdSent(fs) ==
    IF fs = <<>> THEN ""
    ELSE IF fs[Len(fs)].id # "" THEN fs[Len(fs)].id
    ELSE IdSent(SubSeq(fs, 1, Len(fs) - 1))

RECURSIVE NameSent(_)
NameSent(fs) ==
    IF fs = <<>> THEN ""
    ELSE IF fs[Len(fs)].name # "" THEN fs[Len(fs)].name
    ELSE NameSent(SubSeq(fs, 1, Len(fs) - 1))

\* The lines received after the last tool-calls finish signal.
RECURSIVE SinceLastFinish(_)
SinceLastFinish(rcv) ==
    IF rcv = <<>> THEN <<>>
    ELSE IF rcv[Len(rcv)].finish = "tool_calls" THEN <<>>
    ELSE Append(SinceLastFinish(SubSeq(rcv, 1, Len(rcv) - 1)), rcv[Len(rcv)])

ToolIndices == {0, 1}

ConvertsToolCalls == {"messages", "chat_claude"}

\* No finish signal and no [DONE] marker among the lines.
NoFinishSeen(rcv) ==
    \A i \in DOMAIN rcv : rcv[i].kind # "done" /\ rcv[i].finish = "null"

\* The first tool-calls finish signal is the last line received.
FirstFinishIsLast(rcv) ==
    /\ rcv # <<>>
    /\ rcv[Len(rcv)].finish = "tool_calls"
    /\ \A i \in 1..(Len(rcv) - 1) : rcv[i].finish # "tool_calls"

(***************************************************************************)
(* C1  Streaming law: on POST /v1/messages (index.ts and                   *)
(* ApiService.handleStreamingRequest), when the upstream delivered N text  *)
(* delta lines followed by the stop signal and the [DONE] marker, the      *)
(* events written are exactly message_start, content_block_start index 0,  *)
(* the N deltas each with its own increment, content_block_stop index 0,   *)
(* message_stop, in this order; the delta texts concatenate to the         *)
(* concatenation of the upstream deltas.                                   *)
(***************************************************************************)
C1_StreamingLaw ==
    \A n \in 0..MaxLines :
      (/\ path \in {"messages", "api"}
       /\ pc \in {"streaming", "ended", "errored"}
       /\ DeltasThenDone(received, n))
      => /\ out = << MessageStart, TextBlockStart >>
                  \o [i \in 1..n |-> TextDelta(0, received[i].content)]
                  \o << BlockStop(0), MessageStop >>
         /\ ConcatTexts(SelectSeq(out, IsDelta))
              = ConcatContents(SubSeq(received, 1, n))

C1_Witness ==
    /\ path = "messages"
    /\ pc = "ended"
    /\ received = << TextLine(<<"H", "i">>), TextLine(<<"!">>),
                     FinishLine("stop"), DoneLine >>
    /\ Len(out) = 6

(***************************************************************************)
(* C2  On POST /v1/messages, on a stream that ends with the tool-calls     *)
(* finish signal (followed at most by the [DONE] marker), message_stop is  *)
(* written exactly once and it is the last event written.                  *)
(***************************************************************************)
C2_SingleTerminalMessageStop ==
    (/\ path = "messages"
     /\ pc = "ended"
     /\ \E i \in DOMAIN received :
          /\ received[i].finish = "tool_calls"
          /\ NoFinishSeen(SubSeq(received, 1, i - 1))
          /\ \A j \in (i + 1)..Len(received) : received[j] = DoneLine
          /\ Len(received) <= i + 1)
    => /\ CountType(out, "message_stop") = 1
       /\ out[Len(out)] = MessageStop

(***************************************************************************)
(* C3  Tool-call argument fragments are accumulated per index by           *)
(* concatenation in arrival order: the buffered arguments of every slot    *)
(* are the concatenation of the fragments sent for its index; and the      *)
(* three fragments '{"a":', '15,"b"', ':27}' of one tool call, id and name *)
(* in the first, followed by the tool-calls finish signal, give exactly    *)
(* one tool_use block, with input {a: 15, b: 27}.                          *)
(***************************************************************************)
C3_FragmentsConcatenated ==
    (path \in ConvertsToolCalls /\ pc \in {"streaming", "ended", "errored"})
    => /\ LET seg == IF path = "messages" THEN received
                     ELSE SinceLastFinish(received)
          IN  \A i \in ToolIndices :
                IF FragsOf(seg, i) = <<>> THEN i \notin DOMAIN toolCallBuffer
                ELSE /\ i \in DOMAIN toolCallBuffer
                     /\ toolCallBuffer[i].arguments = ArgsSent(FragsOf(seg, i))
       /\ received = << ToolLine(FragA1), ToolLine(FragA2), ToolLine(FragA3),
                        FinishLine("tool_calls") >>
          => /\ Len(ToolUses(out)) = 1
             /\ ToolUses(out)[1].id = "call_1"
             /\ ToolUses(out)[1].name = "add"
             /\ ToolUses(out)[1].input = ObjectInput(ExpectedAB)

C3_Witness ==
    /\ path = "messages"
    /\ received = << ToolLine(FragA1), ToolLine(FragA2), ToolLine(FragA3),
                     FinishLine("tool_calls") >>
    /\ Len(ToolUses(out)) = 1
    /\ toolCallBuffer[0].arguments = ArgsA1 \o ArgsA2 \o ArgsA3

(***************************************************************************)
(* C4  No tool_use block is ever written for a slot whose id or name is    *)
(* empty, on POST /v1/messages and on the Claude-format branch of          *)
(* POST /v1/chat/completions.                                              *)
(***************************************************************************)
C4_NoToolUseWithoutIdAndName ==
    path \in ConvertsToolCalls
    => \A k \in DOMAIN out :
         IsToolUse(out[k]) => out[k].id # "" /\ out[k].name # ""

(***************************************************************************)
(* C5  When, at the tool-calls finish signal, the buffered arguments of a  *)
(* tool call whose id and name are known are not valid JSON, the           *)
(* content_block_start / content_block_stop pair of that tool call is      *)
(* still written, with the error payload as input, and message_stop        *)
(* follows.                                                                *)
(***************************************************************************)
C5_ParseFailureStillEmitted ==
    (/\ path \in ConvertsToolCalls
     /\ pc = "streaming"
     /\ FirstFinishIsLast(received))
    => /\ \A i \in ToolIndices :
            LET fs == FragsOf(received, i)
            IN  (/\ IdSent(fs) # ""
                 /\ NameSent(fs) # ""
                 /\ ArgsSent(fs) # <<>>
                 /\ ~JSONParse(ArgsSent(fs)).ok)
                => \E k \in DOMAIN out :
                     /\ IsToolUse(out[k])
                     /\ out[k].id = IdSent(fs)
                     /\ out[k].input = ErrorPayload(ArgsSent(fs))
                     /\ \E m \in (k + 1)..Len(out) :
                          out[m] = BlockStop(out[k].index)
       /\ out[Len(out)] = MessageStop

C7_ClosedExactlyOnce ==
    (stream /\ out # <<>>)
    => /\ closed <= 1
       /\ pc \in {"ended", "errored"} => closed = 1

(***************************************************************************)
(* C8  Once the downstream client disconnected while the stream is in      *)
(* flight, no upstream read stays in flight, nothing more is written       *)
(* downstream and no further upstream call is made.                        *)
(***************************************************************************)
C8_AbortOnDisconnect ==
    [][(stream /\ pc = "streaming" /\ ~clientConnected)
       => (pc' \notin InFlight /\ out' = out /\ calls' = calls)]_vars

(***************************************************************************)
(* C9  The upstream call of a streaming request is issued exactly once     *)
(* and outside the retry loop, whatever error it returns; a non-streaming  *)
(* call is issued from the retry loop.                                     *)
(***************************************************************************)
C9_StreamingNeverRetried ==
    pc # "idle"
    => /\ stream => /\ calls = 1
                    /\ ~viaRetry
                    /\ sleeps = <<>>
                    /\ pc # "sleeping"
       /\ ~stream => viaRetry /\ calls = attempt

C9_Witness ==
    /\ stream
    /\ lastError = Err(503, "")
    /\ pc \in {"responded", "failed"}
    /\ calls = 1

(***************************************************************************)
(* C10  Retry ceiling: shouldRetry(error, attempt) is false whenever       *)
(* attempt >= maxRetries, for every error and every custom condition.      *)
(***************************************************************************)
C10_RetryCeiling ==
    (probe.result # "unset" /\ probe.attempt >= probe.maxRetries)
    => probe.result = "false"

C10_Witness ==
    /\ probe.result = "false"
    /\ probe.attempt = probe.maxRetries
    /\ probe.maxRetries = 3
    /\ probe.error = Err(503, "")
    /\ probe.custom = "always"


(***************************************************************************)
(* Vocabulary of the retry claims.                                         *)
(***************************************************************************)
Last(s) == s[Len(s)]

StatusRetryable(e) == e.status \in {429, 502, 503, 504}

TransportRetryable(e) ==
    e.status = 0 /\ e.code \in {"ECONNREFUSED", "ETIMEDOUT", "ECONNRESET"}

Retryable(e) == StatusRetryable(e) \/ TransportRetryable(e)

AllErrors(P(_)) == \A i \in 1..Len(errors) : P(errors[i])

\* The law of C11 for the calls that failed every time.
ExhaustedLaw ==
    /\ calls = LoopMaxRetries(path)
    /\ Len(errors) = calls
    /\ Len(sleeps) = calls - 1
    /\ \A i \in 1..Len(sleeps) : sleeps[i] > 0
    /\ propagated = Last(errors)
    /\ pc = "responded"
    /\ httpStatus = ErrorStatus(Last(errors))

(***************************************************************************)
(* C11  A non-streaming call whose every attempt fails with a retryable    *)
(* error (status 429/502/503/504 or a retryable transport code) is invoked *)
(* exactly maxRetries times, sleeps between consecutive attempts and not   *)
(* after the last, and propagates the error of the last attempt.           *)
(***************************************************************************)
C11_ExhaustedRetries ==
    (~stream /\ propagated # NoError /\ AllErrors(Retryable))
    => ExhaustedLaw

\* The same law for errors that are retryable by their HTTP status: it holds
\* on every path.
RetryCeilingOnStatus ==
    (~stream /\ propagated # NoError /\ AllErrors(StatusRetryable))
    => ExhaustedLaw

RetryCeilingOnStatus_Witness ==
    /\ ~stream
    /\ errors = << Err(503, ""), Err(503, ""), Err(503, "") >>
    /\ propagated = Err(503, "")
    /\ sleeps = << 1000, 2000 >>

(***************************************************************************)
(* C12  A non-retryable error (status outside {429, 502, 503, 504} and no  *)
(* retryable transport code) is propagated at the attempt where it occurs: *)
(* no further call and no delay follow it.                                 *)
(***************************************************************************)
C12_NonRetryablePropagatesAtOnce ==
    (~stream /\ errors # <<>> /\ ~Retryable(Last(errors)))
    => /\ pc = "responded"
       /\ propagated = Last(errors)
       /\ httpStatus = ErrorStatus(Last(errors))
       /\ calls = Len(errors)
       /\ Len(sleeps) = Len(errors) - 1

C12_Witness ==
    /\ ~stream
    /\ errors = << Err(503, ""), Err(500, "") >>
    /\ propagated = Err(500, "")
    /\ calls = 2
    /\ Len(sleeps) = 1

(***************************************************************************)
(* C13  On every non-streaming path, a call that fails with a transport    *)
(* error (connection refused, timed out, connection reset; no HTTP status) *)
(* below the attempt ceiling is retried, not propagated.                   *)
(***************************************************************************)
C13_TransportErrorsRetried ==
    (/\ ~stream
     /\ errors # <<>>
     /\ TransportRetryable(Last(errors))
     /\ Len(errors) < LoopMaxRetries(path))
    => propagated = NoError


(***************************************************************************)
(* C14  With jitter off, calculateDelay for the exponential strategy with  *)
(* initialDelay 1000, backoffFactor 2, maxDelay 30000 yields 1000, 2000,   *)
(* 4000, ... clamped at 30000; linear yields initialDelay * attempt and    *)
(* fixed yields initialDelay, both clamped; every result is at most        *)
(* maxDelay.                                                               *)
(***************************************************************************)
C14_DelaySchedule ==
    probe.result # -1
    => LET n == probe.attempt
           c == probe.config
           std == /\ c.initialDelay = 1000
                  /\ c.backoffFactor = 2
                  /\ c.maxDelay = 30000
       IN  /\ probe.result <= c.maxDelay
           /\ ~c.jitter =>
                /\ (probe.strategy = "exponential" /\ std)
                   => /\ probe.result = MinNum(1000 * 2^(n - 1), 30000)
                      /\ n = 1 => probe.result = 1000
                      /\ n = 2 => probe.result = 2000
                      /\ n = 3 => probe.result = 4000
                /\ probe.strategy = "linear"
                   => probe.result = MinNum(c.initialDelay * n, c.maxDelay)
                /\ probe.strategy = "fixed"
                   => probe.result = MinNum(c.initialDelay, c.maxDelay)

C14_Witness ==
    /\ probe.strategy = "exponential"
    /\ probe.attempt = 6
    /\ probe.config = [DEFAULT_RETRY_CONFIG EXCEPT !.jitter = FALSE]
    /\ probe.result = 30000


(***************************************************************************)
(* Vocabulary of the model-resolution claims.                              *)
(***************************************************************************)
\* The match test of a rule, stated on the texts.
RuleMatches(r, name) ==
    \/ r.type = "exact" /\ name = r.pattern
    \/ r.type = "contains"
         /\ \E i \in 1..(Len(name) + 1) : \E j \in 0..Len(name) :
               SubSeq(name, i, j) = r.pattern
    \/ r.type = "prefix"
         /\ \E j \in 0..Len(name) : SubSeq(name, 1, j) = r.pattern
    \/ r.type = "suffix"
         /\ \E i \in 1..(Len(name) + 1) :
               SubSeq(name, i, Len(name)) = r.pattern

MatchingRules(table, name) ==
    { i \in 1..Len(table) : RuleMatches(table[i], name) }

FirstMatching(table, name) ==
    CHOOSE i \in MatchingRules(table, name) :
        \A j \in MatchingRules(table, name) : i <= j

\* Steps 3 to 5 of the resolver: defaultModel, externalDefault, the name.
Fallback(default, external, name) ==
    IF default # <<>> THEN default
    ELSE IF external # <<>> THEN external
    ELSE name

(***************************************************************************)
(* C15  When a rule of the table matches the requested model, mapModel     *)
(* returns the target of a matching rule, whatever defaultModel and        *)
(* externalDefault are.                                                    *)
(***************************************************************************)
C15_RuleFirst ==
    LET table == probe.manager.mappings
    IN  (probe.done /\ MatchingRules(table, probe.model) # {})
        => \E i \in MatchingRules(table, probe.model) :
              probe.result = table[i].target

C15_Witness ==
    /\ probe.done
    /\ probe.manager.mappings = << Rule(<<"a">>, "contains", <<"x">>) >>
    /\ probe.manager.defaultModel = <<"d">>
    /\ probe.externalDefault = <<"e">>
    /\ probe.model = <<"b", "a", "b">>
    /\ probe.result = <<"x">>

(***************************************************************************)
(* C16  When no rule of the table matches the requested model, mapModel    *)
(* returns defaultModel if set, else externalDefault if supplied, else the *)
(* requested name.                                                         *)
(***************************************************************************)
C16_FallbackChain ==
    (probe.done /\ MatchingRules(probe.manager.mappings, probe.model) = {})
    => probe.result = Fallback(probe.manager.defaultModel,
                               probe.externalDefault, probe.model)

\* The chain of C16 on the tables that have at least one rule: it holds.
FallbackChainWithRules ==
    (/\ probe.done
     /\ Len(probe.manager.mappings) > 0
     /\ MatchingRules(probe.manager.mappings, probe.model) = {})
    => probe.result = Fallback(probe.manager.defaultModel,
                               probe.externalDefault, probe.model)

FallbackChainWithRules_Witness ==
    /\ probe.done
    /\ probe.manager.mappings = << Rule(<<"a", "b">>, "exact", <<"y">>) >>
    /\ probe.manager.defaultModel = <<"d">>
    /\ probe.externalDefault = <<"e">>
    /\ probe.model = <<"b">>
    /\ probe.result = <<"d">>

(***************************************************************************)
(* C17  With an empty table mapModel returns the externalDefault when one  *)
(* is supplied and the requested name otherwise, and a defaultModel set on *)
(* the empty table is still returned.                                      *)
(***************************************************************************)
C17_EmptyTablePassthrough ==
    (probe.done /\ probe.manager.mappings = <<>>)
    => /\ probe.manager.defaultModel # <<>>
          => probe.result = probe.manager.defaultModel
       /\ (probe.manager.defaultModel = <<>> /\ probe.externalDefault # <<>>)
          => probe.result = probe.externalDefault
       /\ (probe.manager.defaultModel = <<>> /\ probe.externalDefault = <<>>)
          => probe.result = probe.model

(***************************************************************************)
(* C18  Rules are tested in declaration order: the matching rule with the  *)
(* smallest index decides the result, and a rule of an unrecognized type   *)
(* is skipped while the rules after it are still tested.                   *)
(***************************************************************************)
C18_FirstMatchWins ==
    LET table == probe.manager.mappings
    IN  (probe.done /\ MatchingRules(table, probe.model) # {})
        => probe.result = table[FirstMatching(table, probe.model)].target

C18_Witness ==
    /\ probe.done
    /\ probe.manager.mappings = << Rule(<<"a">>, "regex", <<"u">>),
                                   Rule(<<"a">>, "contains", <<"x">>),
                                   Rule(<<"a", "b">>, "exact", <<"y">>) >>
    /\ probe.model = <<"a", "b">>
    /\ probe.result = <<"x">>


C20_ConverterPriority ==
    LET table == probe.manager.mappings
    IN  (/\ probe.done
         /\ ~probe.useQwenCLI
         /\ probe.manager.present
         /\ Len(table) > 0)
        => IF MatchingRules(table, probe.model) # {}
           THEN probe.result = table[FirstMatching(table, probe.model)].target
           ELSE IF probe.manager.defaultModel # <<>>
           THEN probe.result = probe.manager.defaultModel
           ELSE probe.customModel # <<>> => probe.result = probe.customModel

(***************************************************************************)
(* Vocabulary of the request-translation claims.                           *)
(***************************************************************************)
CalledClaudeToOpenAI ==
    probe.fn = "claudeRequestToOpenAI" /\ probe.stage \in {"out", "back"}

CalledOpenAIToClaude ==
    probe.fn = "openAIRequestToClaude" /\ probe.stage = "out"

IsArrayMessage(msg) ==
    msg.kind = "array" /\ msg.role \in {"user", "assistant"}

BlocksOfType(msg, type) ==
    { i \in 1..Len(msg.blocks) : msg.blocks[i].type = type }

\* The blocks that reach the message built for the whole content array.
MainBlocks(msg) ==
    { i \in 1..Len(msg.blocks) :
        \/ msg.blocks[i].type = "text" /\ msg.blocks[i].text # <<>>
        \/ msg.blocks[i].type = "tool_use" }

\* The expansion of one Claude message with its parts in block order: the
\* message of the text and tool calls stands where its first block stands
\* among the tool results.
InBlockOrder(msg, gen) ==
    IF ~IsArrayMessage(msg) \/ MainBlocks(msg) = {}
    THEN ConvertClaudeMessage(msg, gen)
    ELSE LET acc == ConvertBlocks(msg.blocks, 1, gen, LoopStart)
             main == OpenAIMessage(msg.role, Join(acc.textParts, << "\n" >>),
                                   acc.toolCalls, "")
             first == CHOOSE i \in MainBlocks(msg) :
                          \A j \in MainBlocks(msg) : i <= j
             before == Cardinality({ i \in BlocksOfType(msg, "tool_result") :
                                       i < first })
         IN  SubSeq(acc.pushed, 1, before) \o << main >>
               \o SubSeq(acc.pushed, before + 1, Len(acc.pushed))

RECURSIVE AllInBlockOrder(_, _, _)
AllInBlockOrder(messages, m, gen) ==
    IF m > Len(messages) THEN <<>>
    ELSE InBlockOrder(messages[m], gen[m])
           \o AllInBlockOrder(messages, m + 1, gen)

\* A Claude message that comes from the OpenAI message msg.
ComesFrom(res, msg) ==
    CASE msg.role = "system" ->
           res.role = "user" /\ res.text = SystemPrefix \o msg.text
      [] msg.role = "tool" ->
           /\ res.role = "user"
           /\ \E i \in 1..Len(res.blocks) :
                 res.blocks[i].tool_use_id = msg.tool_call_id
      [] OTHER ->
           /\ res.role = msg.role
           /\ Cardinality(BlocksOfType(res, "tool_use")) = Len(msg.tool_calls)
           /\ msg.text # <<>> =>
                \/ res.text = msg.text
                \/ \E i \in 1..Len(res.blocks) : res.blocks[i].text = msg.text

(***************************************************************************)
(* C21  Every tool_result block of a Claude message is emitted by          *)
(* claudeRequestToOpenAI as a message of role 'tool' whose tool_call_id is *)
(* the block's tool_use_id.                                                *)
(***************************************************************************)
C21_ToolResultAsToolMessage ==
    CalledClaudeToOpenAI
    => \A m \in 1..Len(probe.req.messages) :
          LET msg == probe.req.messages[m]
          IN  IsArrayMessage(msg)
              => \A i \in BlocksOfType(msg, "tool_result") :
                    \E k \in 1..Len(probe.out.req.messages) :
                       /\ probe.out.req.messages[k].role = "tool"
                       /\ probe.out.req.messages[k].tool_call_id
                            = msg.blocks[i].tool_use_id

(***************************************************************************)
(* C22  Request translation keeps the order: the outbound messages follow  *)
(* the order of the inbound messages, and the messages that one Claude     *)
(* message expands into follow the order of its blocks.                    *)
(***************************************************************************)
C22_OrderPreserved ==
    /\ CalledClaudeToOpenAI
       => \E gen \in IdDraws(probe.req) :
             probe.out.req.messages
               = AllInBlockOrder(probe.req.messages, 1, gen)
    /\ (CalledOpenAIToClaude /\ ~probe.out.threw)
       => /\ Len(probe.out.req.messages) = Len(probe.req.messages)
          /\ \A k \in 1..Len(probe.req.messages) :
                ComesFrom(probe.out.req.messages[k], probe.req.messages[k])

\* The order of the inbound messages is kept, in both directions, when no
\* message holds a tool result after a text or a tool call.
OrderOfMessagesPreserved ==
    (\A m \in 1..Len(probe.req.messages) :
        LET msg == probe.req.messages[m]
        IN  \A i \in BlocksOfType(msg, "tool_result") :
               \A j \in MainBlocks(msg) : i < j)
    => C22_OrderPreserved

(***************************************************************************)
(* C23  openAIRequestToClaude does not abort on a tool call whose          *)
(* arguments are not valid JSON: it returns a request whose tool_use block *)
(* carries the error marker with the raw argument string.                  *)
(***************************************************************************)
C23_UnparsableArgumentsKept ==
    CalledOpenAIToClaude
    => \A m \in 1..Len(probe.req.messages) :
          LET msg == probe.req.messages[m]
          IN  \A c \in 1..Len(msg.tool_calls) :
                 (msg.role \in {"user", "assistant"}
                    /\ ~JSONParse(msg.tool_calls[c].arguments).ok)
                 => /\ ~probe.out.threw
                    /\ \E k \in 1..Len(probe.out.req.messages) :
                          \E i \in 1..Len(probe.out.req.messages[k].blocks) :
                             probe.out.req.messages[k].blocks[i].input
                               = ErrorPayload(msg.tool_calls[c].arguments)

(***************************************************************************)
(* C24  max_tokens, temperature and stream of the translated request are   *)
(* the source fields when these are present (0 and false included) and     *)
(* 4096, 0.7 and false when they are absent.                               *)
(***************************************************************************)
C24_DefaultsOnlyWhenAbsent ==
    ((CalledClaudeToOpenAI \/ CalledOpenAIToClaude) /\ ~probe.out.threw)
    => /\ probe.out.req.max_tokens =
            (IF probe.req.max_tokens.set THEN probe.req.max_tokens
             ELSE Opt(4096))
       /\ probe.out.req.temperature =
            (IF probe.req.temperature.set THEN probe.req.temperature
             ELSE Opt(7))
       /\ probe.out.req.stream =
            (IF probe.req.stream.set THEN probe.req.stream ELSE Opt(FALSE))

\* The text of a Claude message: its string content, or the texts of its
\* text blocks.
RECURSIVE BlockTexts(_)
BlockTexts(blocks) ==
    IF blocks = <<>> THEN <<>>
    ELSE (IF blocks[1].type = "text" /\ blocks[1].text # <<>>
          THEN << blocks[1].text >> ELSE <<>>)
           \o BlockTexts(Tail(blocks))

TextOf(msg) ==
    IF msg.kind = "string" THEN msg.text
    ELSE Join(BlockTexts(msg.blocks), << "\n" >>)

\* A message with one text block and one tool_use block holding an object.
IsTextAndToolUse(msg) ==
    /\ IsArrayMessage(msg)
    /\ Len(msg.blocks) = 2
    /\ Cardinality(BlocksOfType(msg, "text")) = 1
    /\ Cardinality(BlocksOfType(msg, "tool_use")) = 1
    /\ \A i \in BlocksOfType(msg, "tool_use") :
          msg.blocks[i].input.tag = "object"

Answered == probe.handler # "none"

\* A tool entry with neither a function container nor a name of its own:
\* a tool definition in neither protocol.
IsMalformedTool(tool) == ~tool.hasFunction /\ tool.name = ""

HasMalformedTool == \E i \in 1..Len(probe.tools) : IsMalformedTool(probe.tools[i])

CredentialsMissing ==
    \/ probe.useQwenCLI /\ ~probe.accessToken
    \/ ~probe.useQwenCLI /\ ~probe.apiKey

IndexHandlers == {"index /v1/messages", "index /v1/chat/completions"}

\* The handler's request translation returned.
Translated ==
    CASE probe.handler = "index /v1/chat/completions" ->
           \/ isClaudeFormat(probe)
           \/ ~openAIRequestToClaude(BodyAsOpenAI(probe.tools),
                                     probe.useQwenCLI, <<>>, NoManager).threw
      [] probe.handler = "controller /v1/chat/completions" ->
           ~openAIRequestToClaude(BodyAsOpenAI(probe.tools),
                                  probe.useQwenCLI, <<>>, NoManager).threw
      [] OTHER -> TRUE

(***************************************************************************)
(* C27  A request with a malformed tool entry is never sent upstream and   *)
(* is answered with a 4xx status.                                          *)
(***************************************************************************)
C27_MalformedToolRejected ==
    (Answered /\ HasMalformedTool)
    => /\ ~probe.answer.sent
       /\ probe.answer.status \in 400..499

(***************************************************************************)
(* C28  Every error answer carries a message, a type and a numeric code,   *)
(* and its HTTP status is the upstream status when the upstream answered   *)
(* with one.                                                               *)
(***************************************************************************)
C28_ErrorShape ==
    (Answered /\ probe.answer.status # 200)
    => /\ probe.answer.body.message # <<>>
       /\ probe.answer.body.type # ""
       /\ probe.answer.body.code.set
       /\ (probe.answer.sent /\ probe.upstream.status # 0)
          => probe.answer.status = probe.upstream.status

\* The part of C28 that holds of every handler: message, type and status.
ErrorShapeWithoutCode ==
    (Answered /\ probe.answer.status # 200)
    => /\ probe.answer.body.message # <<>>
       /\ probe.answer.body.type # ""
       /\ (probe.answer.sent /\ probe.upstream.status # 0)
          => probe.answer.status = probe.upstream.status

ErrorShapeWithoutCode_Witness ==
    /\ probe.handler = "index /v1/messages"
    /\ probe.answer.sent
    /\ probe.upstream.status = 429
    /\ probe.answer.status = 429
    /\ probe.answer.body.type = "api_error"
    /\ ~probe.answer.body.code.set

(***************************************************************************)
(* C29  Without credentials (no API key, or no Qwen access token) a        *)
(* request that translates is answered 401 with an authentication error    *)
(* and no upstream call is made.                                           *)
(***************************************************************************)
C29_Unauthorized ==
    (Answered /\ CredentialsMissing /\ Translated)
    => /\ probe.answer.status = 401
       /\ probe.answer.body.type = "authentication_error"
       /\ ~probe.answer.sent

\* C29 as the handlers of index.ts implement it.
IndexUnauthorized ==
    (probe.handler \in IndexHandlers /\ CredentialsMissing /\ Translated)
    => /\ probe.answer.status = 401
       /\ probe.answer.body.type = "authentication_error"
       /\ ~probe.answer.sent

IndexUnauthorized_Witness ==
    /\ probe.handler = "index /v1/chat/completions"
    /\ probe.useQwenCLI
    /\ ~probe.accessToken
    /\ probe.answer = Answer(401, Unauthorized(QwenAuthFailed), FALSE, <<>>)

\* Vocabulary of the properties about loading.
IsMalformed(config) ==
    \/ config.kind \in {"invalid_json", "no_array"}
    \/ /\ config.kind = "object"
       /\ \E i \in 1..Len(config.mappings) :
             config.mappings[i].pattern = <<>> \/ config.mappings[i].target = <<>>

IsWellFormed(config) == config.kind = "object" /\ ~IsMalformed(config)

RulesOf(config) ==
    [i \in 1..Len(config.mappings) |->
        Rule(config.mappings[i].pattern,
             IF config.mappings[i].type = "" THEN "contains"
             ELSE config.mappings[i].type,
             config.mappings[i].target)]

(***************************************************************************)
(* C30  A load is all-or-nothing: after a load of a malformed              *)
(* configuration the rules and defaultModel are those from before the      *)
(* load; after a load of a well-formed one they are exactly the rules and  *)
(* defaultModel of the configuration.                                      *)
(***************************************************************************)
C30_LoadAllOrNothing ==
    /\ IsMalformed(probe.config) => probe.manager = probe.prev
    /\ IsWellFormed(probe.config)
       => probe.manager = Manager(RulesOf(probe.config),
                                  probe.config.defaultModel)

\* The half of C30 about the rules of a well-formed configuration.
RulesReplacedOnSuccess ==
    IsWellFormed(probe.config)
    => /\ probe.outcome = "loaded"
       /\ probe.manager.mappings = RulesOf(probe.config)

RulesReplacedOnSuccess_Witness ==
    /\ probe.fn = "loadFromEnv"
    /\ probe.prev.mappings = << Rule(<<"a">>, "exact", <<"x">>) >>
    /\ probe.config.kind = "object"
    /\ probe.config.mappings = << Rule(<<"b">>, "", <<"y">>) >>
    /\ probe.manager.mappings = << Rule(<<"b">>, "contains", <<"y">>) >>

\* Strict mode keeps the table when the load throws.
StrictLoadKeepsTable ==
    (probe.fn = "loadFromFile" /\ probe.strict /\ IsMalformed(probe.config))
    => /\ probe.outcome = "thrown"
       /\ probe.manager = probe.prev

StrictLoadKeepsTable_Witness ==
    /\ probe.fn = "loadFromFile"
    /\ probe.strict
    /\ probe.config.kind = "invalid_json"
    /\ probe.outcome = "thrown"
    /\ probe.prev.mappings # <<>>
    /\ probe.manager = probe.prev

\* A translated message carries text, a tool call or a tool block.
CarriesContent(msg) ==
    \/ msg.text # <<>>
    \/ msg.tool_calls # <<>>
    \/ \E i \in 1..Len(msg.blocks) :
          \/ msg.blocks[i].type \in {"tool_use", "tool_result"}
          \/ msg.blocks[i].type = "text" /\ msg.blocks[i].text # <<>>

(***************************************************************************)
(* C35  Every message that claudeRequestToOpenAI or openAIRequestToClaude  *)
(* emits carries text or at least one tool_use/tool_result block (tool     *)
(* call); a source message with neither is dropped.                        *)
(***************************************************************************)
C35_NoEmptyMessage ==
    (probe.stage = "out" /\ ~probe.out.threw)
    => \A k \in 1..Len(probe.out.req.messages) :
          CarriesContent(probe.out.req.messages[k])

\* C35 for claudeRequestToOpenAI alone.
ClaudeToOpenAINoEmptyMessage ==
    CalledClaudeToOpenAI
    => \A k \in 1..Len(probe.out.req.messages) :
          CarriesContent(probe.out.req.messages[k])

ClaudeToOpenAINoEmptyMessage_Witness ==
    /\ CalledClaudeToOpenAI
    /\ probe.req.messages = << ClaudeText("user", <<>>), ClaudeText("user", TxtHi) >>
    /\ probe.out.req.messages = << OpenAIMessage("user", TxtHi, <<>>, "") >>

\* Vocabulary of the properties about the token.
RefreshesInFlight ==
    probe.inFlight["timer"] + probe.inFlight["immediate"]
      + probe.inFlight["request"]

TimerPending == probe.refreshTimer \in {"armed", "due"} \/ probe.untracked > 0

RetryPending == probe.retryTimers > 0

(***************************************************************************)
(* C31  At most one refresh of the token is in flight at any time.         *)
(***************************************************************************)
C31_RefreshSerialized == RefreshesInFlight <= 1

\* The refreshes of the timer cycle alone are serial: one timer, one retry
\* timer or one refresh of the cycle at a time.
TimerCycleIsSerial ==
    /\ probe.untracked = 0
    /\ (IF probe.refreshTimer \in {"armed", "due"} THEN 1 ELSE 0)
         + probe.retryTimers + probe.inFlight["timer"]
         + probe.inFlight["immediate"] <= 1

TimerCycleIsSerial_Witness ==
    /\ probe.inFlight["timer"] = 1
    /\ probe.inFlight["request"] = 1
    /\ probe.refreshTimer = "fired"

(***************************************************************************)
(* C32  While the service runs with credentials loaded, a refresh is in    *)
(* flight or a timer that leads to the next refresh is pending.            *)
(***************************************************************************)
C32_RefreshScheduled ==
    (probe.phase = "running" /\ probe.oauthCreds.present)
    => RefreshesInFlight > 0 \/ TimerPending \/ RetryPending

\* C32 after a failed refresh of the timer cycle: the retry is scheduled.
RetryScheduledAfterFailure ==
    (probe.phase = "running" /\ probe.oauthCreds.present
       /\ probe.oauthCreds.access_token = "loaded")
    => RefreshesInFlight > 0 \/ TimerPending \/ RetryPending

RetryScheduledAfterFailure_Witness ==
    /\ probe.phase = "running"
    /\ probe.last = "failed"
    /\ probe.oauthCreds.access_token = "loaded"
    /\ probe.oauthCreds.refresh_token
    /\ RefreshesInFlight = 0
    /\ RetryPending

(***************************************************************************)
(* C38  A successful refresh keeps refresh_token and resource_url, so      *)
(* getResourceUrl returns what it returned before; a failed refresh        *)
(* leaves the credentials unchanged.                                       *)
(***************************************************************************)
C38_RefreshFrame ==
    /\ probe.last = "ok"
       => /\ probe.oauthCreds.refresh_token = probe.before.refresh_token
          /\ probe.oauthCreds.resource_url = probe.before.resource_url
          /\ getResourceUrl(probe.oauthCreds) = getResourceUrl(probe.before)
    /\ probe.last = "failed"
       => [probe.oauthCreds EXCEPT !.expiry = probe.before.expiry]
            = probe.before

\* The part of C38 that holds: the refresh_token survives a refresh and a
\* failed refresh changes nothing.
RefreshKeepsRefreshToken ==
    /\ probe.last = "ok"
       => probe.oauthCreds.refresh_token = probe.before.refresh_token
    /\ probe.last = "failed"
       => [probe.oauthCreds EXCEPT !.expiry = probe.before.expiry]
            = probe.before

RefreshKeepsRefreshToken_Witness ==
    /\ probe.last = "ok"
    /\ probe.before.access_token = "loaded"
    /\ probe.before.resource_url = Url(TRUE, TRUE, TRUE)
    /\ probe.oauthCreds.access_token = "refreshed"
    /\ probe.oauthCreds.refresh_token
    /\ probe.oauthCreds.resource_url = NoUrl

(***************************************************************************)
(* C39  After cleanup() no refresh timer and no one-minute retry timer is  *)
(* pending.                                                                *)
(***************************************************************************)
C39_NoTimerAfterCleanup ==
    probe.phase \in {"cleaned", "exited"} => ~TimerPending /\ ~RetryPending

\* The part of C39 that holds: the refresh timer itself is cleared.
RefreshTimerCleared ==
    probe.phase \in {"cleaned", "exited"} => ~TimerPending

RefreshTimerCleared_Witness ==
    /\ probe.phase = "cleaned"
    /\ probe.refreshTimer = "null"
    /\ probe.retryTimers = 1

\* Vocabulary of the properties about content blocks.
BlockStarts == {i \in DOMAIN out : out[i].type = "content_block_start"}

FinishSignals ==
    Cardinality({i \in DOMAIN received :
                   received[i].kind = "json" /\ received[i].finish = "tool_calls"})

DoneMarkers ==
    Cardinality({i \in DOMAIN received : received[i].kind = "done"})

(***************************************************************************)
(* C33  In the events of one stream a content_block_start is written at    *)
(* most once for each index, so that the tool_use blocks have indices      *)
(* distinct from each other and from the text block's index 0.             *)
(***************************************************************************)
C33_BlockStartOncePerIndex ==
    \A i, j \in BlockStarts : out[i].index = out[j].index => i = j

\* C33 for the streams with at most one finish signal.
BlockStartOnceWithOneFinish ==
    FinishSignals <= 1 => C33_BlockStartOncePerIndex

BlockStartOnceWithOneFinish_Witness ==
    /\ path = "messages"
    /\ FinishSignals = 1
    /\ out[2] = TextBlockStart
    /\ \E i \in BlockStarts : out[i].index = 1 /\ out[i].name = "add"

(***************************************************************************)
(* C37  When message_stop is written, every content_block_start written    *)
(* before it has been followed by exactly one content_block_stop of its    *)
(* index, the text block at index 0 included.                              *)
(***************************************************************************)
C37_BlocksClosedBeforeStop ==
    \A k \in DOMAIN out :
       out[k].type = "message_stop"
       => \A i \in BlockStarts :
             i < k
             => Cardinality({j \in (i + 1)..(k - 1) :
                               out[j] = BlockStop(out[i].index)}) = 1

\* C37 for the streams that end with one [DONE] and no tool-call finish.
TextBlockClosedBeforeStop ==
    (FinishSignals = 0 /\ DoneMarkers <= 1) => C37_BlocksClosedBeforeStop

TextBlockClosedBeforeStop_Witness ==
    /\ path \in {"messages", "api"}
    /\ FinishSignals = 0
    /\ DoneMarkers = 1
    /\ Len(out) >= 5
    /\ out[2] = TextBlockStart
    /\ out[Len(out) - 1] = BlockStop(0)
    /\ out[Len(out)] = MessageStop

(***************************************************************************)
(* Chunking of the upstream stream.                                        *)
(***************************************************************************)
RECURSIVE UncutLines(_, _)
UncutLines(lines, cuts) ==
    IF lines = <<>> THEN <<>>
    ELSE IF Head(cuts) = 0
    THEN << Head(lines) >> \o UncutLines(Tail(lines), Tail(cuts))
    ELSE UncutLines(Tail(lines), Tail(cuts))

HasEffect(p, line) == HandleLine(p, line, OpenedStream(p)) # OpenedStream(p)

(***************************************************************************)
(* C36  The events written, and the buffers kept, depend only on the       *)
(* sequence of upstream data lines: however the lines were cut into        *)
(* chunks, the handler is where it would be had each line come whole.      *)
(***************************************************************************)
C36_ChunkingIndependent ==
    probe.h = HandleLines(probe.p, probe.lines, OpenedStream(probe.p))

\* What the handlers do: a line cut by the transport is dropped whole, and
\* the lines that came in one piece are handled as if it had never been sent.
CutLineIsDropped ==
    probe.h = HandleLines(probe.p, UncutLines(probe.lines, probe.cuts),
                          OpenedStream(probe.p))

CutLineIsDropped_Witness ==
    /\ Len(probe.lines) = 2
    /\ probe.cuts[1] # 0
    /\ probe.cuts[2] = 0
    /\ HasEffect(probe.p, probe.lines[1])
    /\ HasEffect(probe.p, probe.lines[2])

(***************************************************************************)
(* The opening events of a stream.                                         *)
(***************************************************************************)
StreamOpened == probe.handler # "none"

(***************************************************************************)
(* C34  The message_start written when a stream opens carries the model    *)
(* the resolver produced for the request, and the content_block_start of   *)
(* the text block at index 0 follows it at once, before any delta.         *)
(***************************************************************************)
C34_StartCarriesResolvedModel ==
    StreamOpened =>
      /\ probe.startModel = probe.openAIModel
      /\ probe.out[1] = MessageStart
      /\ probe.out[2] = TextBlockStart

\* What the handlers do: message_start echoes the model of the inbound
\* request, and the text block start is the second event of the stream.
StartEchoesRequestModel ==
    StreamOpened =>
      /\ probe.startModel = probe.model
      /\ probe.out[1] = MessageStart
      /\ probe.out[2] = TextBlockStart
      /\ \A i \in 3..Len(probe.out) : probe.out[i].type = "content_block_delta"

StartEchoesRequestModel_Witness ==
    /\ StreamOpened
    /\ probe.openAIModel # probe.model
    /\ Len(probe.out) = 3

====
